---- MODULE Spec2Model ----
(***************************************************************************)
(* Model of the chess position library of guille2718/chess                 *)
(* (src/chess_board.cc with its header src/unnamed/part_002).              *)
(*                                                                         *)
(* A text (std::string, std::string_view) is a sequence of characters; a   *)
(* character is a one-character string and Ord gives its ASCII code, so    *)
(* that the character arithmetic of the source (c - '0', isdigit, tolower) *)
(* is computed as the source computes it.                                  *)
(***************************************************************************)
EXTENDS Integers, Sequences, FiniteSets, TLC

(***************************************************************************)
(* Characters                                                              *)
(***************************************************************************)

\* The printable ASCII characters, code 32 (space) up to code 126 (~); the
\* double quote (34), the backslash (92) and the backtick (96) are written
\* by their names.
AsciiPrintable ==
  << " ", "!", "QUOTE", "#", "$", "%", "&", "'", "(", ")", "*", "+",
     ",", "-", ".", "/", "0", "1", "2", "3", "4", "5", "6", "7",
     "8", "9", ":", ";", "<", "=", ">", "?", "@", "A", "B", "C",
     "D", "E", "F", "G", "H", "I", "J", "K", "L", "M", "N", "O",
     "P", "Q", "R", "S", "T", "U", "V", "W", "X", "Y", "Z", "[",
     "BACKSLASH", "]", "^", "_", "BACKTICK", "a", "b", "c", "d", "e", "f", "g",
     "h", "i", "j", "k", "l", "m", "n", "o", "p", "q", "r", "s",
     "t", "u", "v", "w", "x", "y", "z", "{", "|", "}", "~" >>

CharSet == { AsciiPrintable[i] : i \in 1..Len(AsciiPrintable) }

OrdTable ==
  [ c \in CharSet |-> 31 + (CHOOSE i \in 1..Len(AsciiPrintable) : AsciiPrintable[i] = c) ]

\* The code of a character (the value of a char in integer arithmetic).
Ord(c) == OrdTable[c]

\* The character of a code.
Chr(n) == AsciiPrintable[n - 31]

\* absl::ascii_isdigit
ascii_isdigit(c) == c \in CharSet /\ Ord(c) >= Ord("0") /\ Ord(c) <= Ord("9")

\* absl::ascii_isupper
ascii_isupper(c) == c \in CharSet /\ Ord(c) >= Ord("A") /\ Ord(c) <= Ord("Z")

\* absl::ascii_islower
ascii_islower(c) == c \in CharSet /\ Ord(c) >= Ord("a") /\ Ord(c) <= Ord("z")

\* absl::ascii_tolower
ascii_tolower(c) == IF ascii_isupper(c) THEN Chr(Ord(c) + 32) ELSE c

\* absl::ascii_toupper
ascii_toupper(c) == IF ascii_islower(c) THEN Chr(Ord(c) - 32) ELSE c

\* absl::AsciiStrToLower
AsciiStrToLower(s) == [ i \in 1..Len(s) |-> ascii_tolower(s[i]) ]

\* absl::AsciiStrToUpper
AsciiStrToUpper(s) == [ i \in 1..Len(s) |-> ascii_toupper(s[i]) ]

RECURSIVE IntToText(_)
\* absl::StrAppend / %d of a non-negative integer: its decimal digits.
IntToText(n) ==
  IF n < 10 THEN << Chr(Ord("0") + n) >>
  ELSE Append(IntToText(n \div 10), Chr(Ord("0") + (n % 10)))

RECURSIVE StrSplitFrom(_, _, _, _)
StrSplitFrom(text, delim, i, cur) ==
  IF i > Len(text) THEN << cur >>
  ELSE IF text[i] = delim
       THEN << cur >> \o StrSplitFrom(text, delim, i + 1, << >>)
       ELSE StrSplitFrom(text, delim, i + 1, Append(cur, text[i]))

\* absl::StrSplit(text, delim): the pieces between the delimiters, empty
\* pieces kept; the empty text gives one empty piece.
StrSplit(text, delim) == StrSplitFrom(text, delim, 1, << >>)

RECURSIVE StrJoinFrom(_, _, _)
StrJoinFrom(strs, sep, i) ==
  IF i > Len(strs) THEN << >>
  ELSE IF i = Len(strs) THEN strs[i]
       ELSE strs[i] \o sep \o StrJoinFrom(strs, sep, i + 1)

\* absl::StrJoin(strs, sep)
StrJoin(strs, sep) == StrJoinFrom(strs, sep, 1)

(***************************************************************************)
(* Pieces and positions                                                    *)
(***************************************************************************)

\* enum class Color
Color == { "White", "Black" }

\* enum class PieceType
PieceType == { "Rook", "Knight", "Bishop", "Queen", "King", "Pawn" }

\* std::nullopt of std::optional<Piece>
NoPiece == [ type |-> "None", color |-> "None" ]

\* absl::OkStatus()
NoError == [ msg |-> "", arg |-> << >> ]

\* absl::InvalidArgumentError(msg) with the formatted argument, if any
InvalidArgumentError(m, a) == [ msg |-> m, arg |-> a ]

\* BoardPosition::IsValid
IsValid(position) ==
  /\ position.file >= 1 /\ position.file <= 8
  /\ position.rank >= 1 /\ position.rank <= 8

\* Faulty variant: c is compared as it is, not lower-cased first.
FromFenPieceCharAsGiven(c) ==
  LET color == IF ascii_isupper(c) THEN "White" ELSE "Black"
      Ok(t) == [ ok |-> TRUE, piece |-> [ type |-> t, color |-> color ],
                 error |-> NoError ]
  IN  IF c = "r" THEN Ok("Rook")
      ELSE IF c = "n" THEN Ok("Knight")
      ELSE IF c = "b" THEN Ok("Bishop")
      ELSE IF c = "q" THEN Ok("Queen")
      ELSE IF c = "k" THEN Ok("King")
      ELSE IF c = "p" THEN Ok("Pawn")
      ELSE [ ok |-> FALSE, piece |-> NoPiece,
             error |-> InvalidArgumentError("Invalid FEN piece type", << c >>) ]

\* FromFenPieceChar(char c)
FromFenPieceChar(c) ==
  LET color == IF ascii_isupper(c) THEN "White" ELSE "Black"
      lc    == ascii_tolower(c)
      Ok(t) == [ ok |-> TRUE, piece |-> [ type |-> t, color |-> color ],
                 error |-> NoError ]
  IN  IF lc = "r" THEN Ok("Rook")
      ELSE IF lc = "n" THEN Ok("Knight")
      ELSE IF lc = "b" THEN Ok("Bishop")
      ELSE IF lc = "q" THEN Ok("Queen")
      ELSE IF lc = "k" THEN Ok("King")
      ELSE IF lc = "p" THEN Ok("Pawn")
      ELSE [ ok |-> FALSE, piece |-> NoPiece,
             error |-> InvalidArgumentError("Invalid FEN piece type", << lc >>) ]

\* ToString(PieceType, ChessLanguage); a glyph of the kUnicode notation is
\* one character outside ASCII (written here by its code point), followed
\* by a space as in the source.
PieceTypeToString(type, language) ==
  IF language = "kEnglish" THEN
    CASE type = "Rook" -> << "R" >>
      [] type = "Knight" -> << "N" >>
      [] type = "Bishop" -> << "B" >>
      [] type = "Queen" -> << "Q" >>
      [] type = "King" -> << "K" >>
      [] type = "Pawn" -> << "P" >>
      [] OTHER -> << >>
  ELSE IF language = "kUnicode" THEN
    CASE type = "Rook" -> << "U+1FA02", " " >>
      [] type = "Knight" -> << "U+1FA04", " " >>
      [] type = "Bishop" -> << "U+1FA03", " " >>
      [] type = "Queen" -> << "U+1FA01", " " >>
      [] type = "King" -> << "U+1FA00", " " >>
      [] type = "Pawn" -> << "U+1FA05", " " >>
      [] OTHER -> << >>
  ELSE IF language = "kSpanish" THEN
    CASE type = "Rook" -> << "T" >>
      [] type = "Knight" -> << "C" >>
      [] type = "Bishop" -> << "A" >>
      [] type = "Queen" -> << "D" >>
      [] type = "King" -> << "R" >>
      [] type = "Pawn" -> << "P" >>
      [] OTHER -> << >>
  ELSE IF language = "kEnglishFull" THEN
    CASE type = "Rook" -> << "r", "o", "o", "k" >>
      [] type = "Knight" -> << "k", "n", "i", "g", "h", "t" >>
      [] type = "Bishop" -> << "b", "i", "s", "h", "o", "p" >>
      [] type = "Queen" -> << "q", "u", "e", "e", "n" >>
      [] type = "King" -> << "k", "i", "n", "g" >>
      [] type = "Pawn" -> << "p", "a", "w", "n" >>
      [] OTHER -> << >>
  ELSE << >>

(***************************************************************************)
(* ChessBoard::FromFen                                                     *)
(***************************************************************************)

\* A failed absl::StatusOr<ChessBoard>: an error and no Board.
FromFenError(e) ==
  [ ok |-> FALSE, pieces |-> << >>, white_to_move |-> TRUE, error |-> e ]

\* Faulty variant: a digit skips one file whatever its value.
FromFenSkipFilesAsOne(file, current_char) == file + 1

\* file += current_char - '0'
FromFenSkipFiles(file, current_char) ==
  file + (Ord(current_char) - Ord("0"))

\* Faulty variant: the file is not advanced after a piece.
FromFenNextFileStuck(file) == file

\* ++file, after a piece was pushed
FromFenNextFile(file) == file + 1

\* Faulty variant: a rank-group of 8 characters is rejected too.
FromFenRankTooLongOffByOne(rank_str) == Len(rank_str) >= 8

\* if (rank_str.size() > 8): the rank-group is rejected
FromFenRankTooLong(rank_str) == Len(rank_str) > 8

RECURSIVE FromFenRankLoop(_, _, _, _, _)
\* The inner loop of FromFen over the characters of one rank-group:
\* ok with the pieces pushed so far, or the piece parser's error.
FromFenRankLoop(rank_str, i, file, rank, acc) ==
  IF i > Len(rank_str) THEN [ ok |-> TRUE, pieces |-> acc, error |-> NoError ]
  ELSE LET current_char == rank_str[i] IN
       IF ascii_isdigit(current_char)
       THEN FromFenRankLoop(rank_str, i + 1,
                            FromFenSkipFiles(file, current_char), rank, acc)
       ELSE LET piece_or == FromFenPieceChar(current_char) IN
            IF ~piece_or.ok
            THEN [ ok |-> FALSE, pieces |-> acc, error |-> piece_or.error ]
            ELSE FromFenRankLoop(rank_str, i + 1, FromFenNextFile(file), rank,
                   Append(acc, [ position |-> [ file |-> file, rank |-> rank ],
                                 piece |-> piece_or.piece ]))

RECURSIVE FromFenRanksLoop(_, _, _, _)
\* The outer loop of FromFen over the rank-groups, rank counting down.
FromFenRanksLoop(ranks, k, rank, acc) ==
  IF k > Len(ranks) THEN [ ok |-> TRUE, pieces |-> acc, error |-> NoError ]
  ELSE IF FromFenRankTooLong(ranks[k])
       THEN [ ok |-> FALSE, pieces |-> acc,
              error |-> InvalidArgumentError("FEN rank must have at most 8 files",
                                             IntToText(Len(ranks[k]))) ]
       ELSE LET r == FromFenRankLoop(ranks[k], 1, 1, rank, acc) IN
            IF ~r.ok THEN r
            ELSE FromFenRanksLoop(ranks, k + 1, rank - 1, r.pieces)

\* Faulty variant: the comparison of the second field is inverted.
FromFenWhiteToMoveInverted(parts) ==
  IF Len(parts) >= 2 THEN parts[2] # << "w" >> ELSE TRUE

\* Faulty variant: the second field is compared without regard to case.
FromFenWhiteToMoveAnyCase(parts) ==
  IF Len(parts) >= 2 THEN AsciiStrToLower(parts[2]) = << "w" >> ELSE TRUE

\* if (parts.size() >= 2) ret.white_to_move_ = parts[1] == "w"; the member's
\* default is true.
FromFenWhiteToMove(parts) ==
  IF Len(parts) >= 2 THEN parts[2] = << "w" >> ELSE TRUE

\* ChessBoard::FromFen(fen)
FromFen(fen) ==
  LET parts == StrSplit(fen, " ") IN
  IF parts = << >>
  THEN FromFenError(InvalidArgumentError(
         "FEN Must contain at least piece placement data", << >>))
  ELSE LET wtm   == FromFenWhiteToMove(parts)
           ppd   == parts[1]
           ranks == StrSplit(ppd, "/")
       IN  IF Len(ranks) # 8
           THEN FromFenError(InvalidArgumentError(
                  "There must be 8 ranks in the FEN", << >>))
           ELSE LET r == FromFenRanksLoop(ranks, 1, 8, << >>) IN
                IF ~r.ok THEN FromFenError(r.error)
                ELSE [ ok |-> TRUE, pieces |-> r.pieces,
                       white_to_move |-> wtm, error |-> NoError ]

(***************************************************************************)
(* ChessBoard::Fen, ChessBoard::Rotate                                     *)
(***************************************************************************)

\* Whether Fen's write full_board[8 - rank][file - 1] lands inside the 8x8
\* grid (both vectors were resized to 8).
InGrid(position) ==
  /\ 8 - position.rank >= 0 /\ 8 - position.rank < 8
  /\ position.file - 1 >= 0 /\ position.file - 1 < 8

\* full_board after the two resize(8) calls: every square std::nullopt.
EmptyFullBoard == [ r \in 0..7 |-> [ f \in 0..7 |-> NoPiece ] ]

RECURSIVE FenPlaceLoop(_, _, _)
\* The first loop of Fen: each piece of pieces_, in storage order, is
\* written to its square of the grid.
FenPlaceLoop(pieces, i, full_board) ==
  IF i > Len(pieces) THEN full_board
  ELSE LET board_piece == pieces[i]
           rank == 8 - board_piece.position.rank
           file == board_piece.position.file - 1
       IN  FenPlaceLoop(pieces, i + 1,
                        [ full_board EXCEPT ![rank][file] = board_piece.piece ])

\* Faulty variant: the cases of the two colors are swapped.
FenPieceStrSwapped(piece) ==
  LET piece_str == PieceTypeToString(piece.type, "kEnglish") IN
  IF piece.color = "Black" THEN AsciiStrToUpper(piece_str)
  ELSE AsciiStrToLower(piece_str)

\* The letter Fen writes for a piece: its English abbreviation, upper case
\* for White and lower case for Black.
FenPieceStr(piece) ==
  LET piece_str == PieceTypeToString(piece.type, "kEnglish") IN
  IF piece.color = "White" THEN AsciiStrToUpper(piece_str)
  ELSE AsciiStrToLower(piece_str)

\* Faulty variant: the run of empty squares is written even when it is empty.
FenAppendGapAlways(rank_str, prev_file, curr_file) ==
  rank_str \o IntToText(curr_file - prev_file)

\* if (prev_file < curr_file) absl::StrAppend(&rank_str, curr_file - prev_file)
FenAppendGap(rank_str, prev_file, curr_file) ==
  IF prev_file < curr_file
  THEN rank_str \o IntToText(curr_file - prev_file)
  ELSE rank_str

RECURSIVE FenRankLoop(_, _, _, _, _, _)
\* The loop of Fen over the 8 squares of one grid row, then the trailing
\* run of empty squares and the was_empty case.
FenRankLoop(rank, i, prev_file, curr_file, was_empty, rank_str) ==
  IF i > 7
  THEN IF was_empty THEN << "8" >>
       ELSE FenAppendGap(rank_str, prev_file, curr_file)
  ELSE LET piece == rank[i] IN
       IF piece # NoPiece
       THEN FenRankLoop(rank, i + 1, curr_file + 1, curr_file + 1, FALSE,
                        FenAppendGap(rank_str, prev_file, curr_file)
                          \o FenPieceStr(piece))
       ELSE FenRankLoop(rank, i + 1, prev_file, curr_file + 1, was_empty,
                        rank_str)

\* The text Fen() returns when every write landed inside the grid.
FenText(pieces, white_to_move) ==
  LET full_board   == FenPlaceLoop(pieces, 1, EmptyFullBoard)
      rank_strings == [ r \in 1..8 |->
                          FenRankLoop(full_board[r - 1], 0, 1, 1, TRUE, << >>) ]
      to_play      == IF white_to_move THEN << "w" >> ELSE << "b" >>
  IN  StrJoin(rank_strings, << "/" >>) \o << " " >> \o to_play
        \o << " ", "-", " ", "-", " ", "0", " ", "1" >>

\* ChessBoard::Fen(): the outcomes of one call.  A piece outside the grid
\* makes full_board[rank][file] = ... a write past the end of a vector,
\* which is undefined behaviour: the call may crash, or the write may miss
\* the grid and the call return the text of the other pieces.
Fen(pieces, white_to_move) ==
  IF \A i \in 1..Len(pieces) : InGrid(pieces[i].position)
  THEN { [ crashed |-> FALSE, text |-> FenText(pieces, white_to_move) ] }
  ELSE { [ crashed |-> TRUE, text |-> << >> ],
         [ crashed |-> FALSE,
           text |-> FenText(SelectSeq(pieces, LAMBDA bp : InGrid(bp.position)),
                            white_to_move) ] }

\* Faulty variant: the file is computed from the rank already rotated
\* (file = 9 - rank after rank = 9 - rank).
RotatePieceTypo(piece) ==
  [ position |-> [ file |-> 9 - (9 - piece.position.rank),
                   rank |-> 9 - piece.position.rank ],
    piece    |-> [ type  |-> piece.piece.type,
                   color |-> IF piece.piece.color = "Black"
                             THEN "White" ELSE "Black" ] ]

\* Faulty variant: the file of the piece is left as it was.
RotatePieceKeepFile(piece) ==
  [ position |-> [ file |-> piece.position.file,
                   rank |-> 9 - piece.position.rank ],
    piece    |-> [ type  |-> piece.piece.type,
                   color |-> IF piece.piece.color = "Black"
                             THEN "White" ELSE "Black" ] ]

\* Faulty variant: the color of the piece is left as it was.
RotatePieceKeepColor(piece) ==
  [ position |-> [ file |-> 9 - piece.position.file,
                   rank |-> 9 - piece.position.rank ],
    piece    |-> [ type  |-> piece.piece.type,
                   color |-> piece.piece.color ] ]

\* The loop body of ChessBoard::Rotate for one piece.
RotatePiece(piece) ==
  [ position |-> [ file |-> 9 - piece.position.file,
                   rank |-> 9 - piece.position.rank ],
    piece    |-> [ type  |-> piece.piece.type,
                   color |-> IF piece.piece.color = "Black"
                             THEN "White" ELSE "Black" ] ]

(***************************************************************************)
(* BoardPosition, BoardPiece: texts, ordering, square color; AtPosition    *)
(***************************************************************************)

\* The BoardPosition of a result that holds none.
NoPosition == [ file |-> 0, rank |-> 0 ]

\* Faulty variant: the files are counted from 0.
FileToLetterFromZero(file) == Chr(Ord("a") + file)

\* FileToLetter(int file): 'a' + file - 1
FileToLetter(file) == Chr(Ord("a") + file - 1)

\* Faulty variant: the position is returned without the IsValid check.
BoardPosition_FromStringUnchecked(str) ==
  IF Len(str) # 2
  THEN [ ok |-> FALSE, position |-> NoPosition,
         error |-> InvalidArgumentError(
                     "Position must consist of exactly two chacaters.", << >>) ]
  ELSE [ ok |-> TRUE,
         position |-> [ file |-> 1 + Ord(str[1]) - Ord("a"),
                        rank |-> Ord(str[2]) - Ord("0") ],
         error |-> NoError ]

\* BoardPosition::FromString(str)
BoardPosition_FromString(str) ==
  IF Len(str) # 2
  THEN [ ok |-> FALSE, position |-> NoPosition,
         error |-> InvalidArgumentError(
                     "Position must consist of exactly two chacaters.", << >>) ]
  ELSE LET ret == [ file |-> 1 + Ord(str[1]) - Ord("a"),
                    rank |-> Ord(str[2]) - Ord("0") ]
       IN  IF ~IsValid(ret)
           THEN [ ok |-> FALSE, position |-> NoPosition,
                  error |-> InvalidArgumentError("Invalid position string", str) ]
           ELSE [ ok |-> TRUE, position |-> ret, error |-> NoError ]

\* ToString(const BoardPosition&)
BoardPosition_ToString(position) ==
  << FileToLetter(position.file), Chr(Ord("0") + position.rank) >>

\* Faulty variant: the text of a Black piece is not lower-cased.
BoardPiece_ToStringNoLower(piece, language) ==
  PieceTypeToString(piece.piece.type, language)
    \o BoardPosition_ToString(piece.position)

\* ToString(const BoardPiece&, ChessLanguage)
BoardPiece_ToString(piece, language) ==
  LET ret == PieceTypeToString(piece.piece.type, language)
               \o BoardPosition_ToString(piece.position)
  IN  IF piece.piece.color = "Black" THEN AsciiStrToLower(ret) ELSE ret

\* A failed absl::StatusOr<BoardPiece>.
BoardPieceError(e) ==
  [ ok |-> FALSE, piece |-> NoPiece, position |-> NoPosition, error |-> e ]

\* Faulty variant: the position is parsed, and its error returned, before
\* the piece letter is looked at.
BoardPiece_FromStringPositionFirst(str) ==
  IF Len(str) # 3
  THEN BoardPieceError(InvalidArgumentError(
         "BoardPiece string must consist of three characters", << >>))
  ELSE LET position_or == BoardPosition_FromString(SubSeq(str, 2, Len(str))) IN
       IF ~position_or.ok THEN BoardPieceError(position_or.error)
       ELSE LET piece_or == FromFenPieceChar(str[1]) IN
            IF ~piece_or.ok THEN BoardPieceError(piece_or.error)
            ELSE [ ok |-> TRUE, piece |-> piece_or.piece,
                   position |-> position_or.position, error |-> NoError ]

\* BoardPiece::FromString(str)
BoardPiece_FromString(str) ==
  IF Len(str) # 3
  THEN BoardPieceError(InvalidArgumentError(
         "BoardPiece string must consist of three characters", << >>))
  ELSE LET piece_or == FromFenPieceChar(str[1]) IN
       IF ~piece_or.ok THEN BoardPieceError(piece_or.error)
       ELSE LET position_or ==
                  BoardPosition_FromString(SubSeq(str, 2, Len(str)))
            IN  IF ~position_or.ok THEN BoardPieceError(position_or.error)
                ELSE [ ok |-> TRUE, piece |-> piece_or.piece,
                       position |-> position_or.position, error |-> NoError ]

\* The built-in a <=> b of two int values.
IntCompare(a, b) ==
  IF a < b THEN "less" ELSE IF a > b THEN "greater" ELSE "equal"

\* Faulty variant: the ranks are ordered upwards.
BoardPosition_CompareAscending(a, b) ==
  IF a.rank < b.rank THEN "less"
  ELSE IF a.rank > b.rank THEN "greater"
  ELSE IntCompare(a.file, b.file)

\* BoardPosition::operator<=>(a, b)
BoardPosition_Compare(a, b) ==
  IF a.rank > b.rank THEN "less"
  ELSE IF a.rank < b.rank THEN "greater"
  ELSE IntCompare(a.file, b.file)

\* a < b, rewritten by the compiler to (a <=> b) < 0
BoardPosition_Less(a, b) == BoardPosition_Compare(a, b) = "less"

\* BoardPosition::operator== (= default): the members compare equal.
BoardPosition_Equal(a, b) == a.file = b.file /\ a.rank = b.rank

\* The % of two int values: the remainder of the division truncated
\* towards zero.
IntRem(a, b) == IF a >= 0 THEN a % b ELSE -((-a) % b)

\* Faulty variant: the two colors are exchanged.
BoardPosition_ColorSwapped(position) ==
  IF IntRem(position.file + position.rank, 2) = 0 THEN "Black" ELSE "White"

\* BoardPosition::Color()
BoardPosition_Color(position) ==
  IF IntRem(position.file + position.rank, 2) = 0 THEN "White" ELSE "Black"

\* Faulty variant: only the files are compared.
AtPositionMatchFileOnly(board_piece, position) ==
  board_piece.position.file = position.file

\* if (board_piece.position == position)
AtPositionMatch(board_piece, position) ==
  BoardPosition_Equal(board_piece.position, position)

RECURSIVE AtPositionLoop(_, _, _)
\* The loop of AtPosition over pieces_ in storage order.
AtPositionLoop(pieces, i, position) ==
  IF i > Len(pieces) THEN NoPiece
  ELSE IF AtPositionMatch(pieces[i], position) THEN pieces[i].piece
       ELSE AtPositionLoop(pieces, i + 1, position)

\* ChessBoard::AtPosition(position): the piece or std::nullopt
AtPosition(pieces, position) == AtPositionLoop(pieces, 1, position)

(***************************************************************************)
(* The bishop trainer: Normalize and the solutions of BishopIntercept      *)
(***************************************************************************)

RECURSIVE SortInsert(_, _)
\* The sorted list sorted with the position p put in its place.
SortInsert(sorted, p) ==
  IF sorted = << >> THEN << p >>
  ELSE IF BoardPosition_Less(p, Head(sorted)) THEN << p >> \o sorted
       ELSE << Head(sorted) >> \o SortInsert(Tail(sorted), p)

RECURSIVE SortPositions(_)
\* std::ranges::sort(positions): the order is total and only equal
\* positions are equivalent, so every sorting algorithm returns this list.
SortPositions(positions) ==
  IF positions = << >> THEN << >>
  ELSE SortInsert(SortPositions(Tail(positions)), Head(positions))

RECURSIVE NormalizeUnique(_)

\* Faulty variant: nothing is erased.
NormalizeUniqueKeepsAll(positions) == positions

\* positions.erase(std::unique(...), positions.end()): one position is left
\* of every run of equal positions.
NormalizeUnique(positions) ==
  IF Len(positions) <= 1 THEN positions
  ELSE IF BoardPosition_Equal(positions[1], positions[2])
       THEN NormalizeUnique(Tail(positions))
       ELSE << Head(positions) >> \o NormalizeUnique(Tail(positions))

\* positions.erase(std::remove_if(..., !e.IsValid()), positions.end())
NormalizeRemoveInvalid(positions) == SelectSeq(positions, IsValid)

\* Normalize(positions): the list it leaves in positions
Normalize(positions) ==
  NormalizeRemoveInvalid(NormalizeUnique(SortPositions(positions)))

\* The / of two int values: the quotient truncated towards zero.
IntQuot(a, b) == IF a >= 0 THEN a \div b ELSE -((-a) \div b)

\* Faulty variant: the second square is taken on the same diagonal as the
\* first one.
BishopInterceptSolution2SameDiagonal(a, t) ==
  [ file |-> a.file + t, rank |-> a.rank + t ]

\* solution2 of BishopIntercept::Run
BishopInterceptSolution2(a, t) ==
  [ file |-> a.file + t, rank |-> a.rank - t ]

\* The list solutions that BishopIntercept::Run computes for a and b.
BishopInterceptSolutions(a, b) ==
  LET dx == b.file - a.file
      dy == b.rank - a.rank
      s  == IntQuot(dx + dy, 2)
      t  == IntQuot(dx - dy, 2)
  IN  IF IntRem(dx + dy, 2) = 0
      THEN IF s = 0 \/ t = 0 THEN << a >>
           ELSE Normalize(<< [ file |-> a.file + s, rank |-> a.rank + s ],
                             BishopInterceptSolution2(a, t) >>)
      ELSE << >>

\* Faulty variant: the pieces are returned last first.
BoardPiecesReversed(pieces) ==
  [ i \in 1..Len(pieces) |-> pieces[Len(pieces) + 1 - i] ]

\* ChessBoard::BoardPieces(): a copy of pieces_
BoardPieces(pieces) == pieces

(***************************************************************************)
(* LoadFenFile.  A file is described by what LoadFile and the JSON library *)
(* make of it: doc.kind is "unreadable" (LoadFile returns the empty text), *)
(* "malformed" (a text that is no JSON), "array" (a JSON array at the top), *)
(* "no_problems" (an object without the key "problems") or "object" (an    *)
(* object whose "problems" is the array doc.problems).  A problem is an    *)
(* object; fen_kind is "string", "number" or "missing", info_kind is       *)
(* "string", "number" or "absent".                                         *)
(***************************************************************************)

\* What a call of LoadFenFile ends in: kind is "ok" (the Boards), "error"
\* (an absl::Status), "exception" (one thrown and not caught), "aborted"
\* or "crashed".
LoadOutcome(kind, boards, e) == [ kind |-> kind, boards |-> boards, error |-> e ]

\* An exception of the JSON library; nothing in the program catches it.
JsonException(what) ==
  { LoadOutcome("exception", << >>, [ msg |-> what, arg |-> << >> ]) }

\* problem["fen"] on a const object without that key: undefined behaviour,
\* an assertion of the library in a build that keeps assertions, a read
\* through the end iterator otherwise.
JsonMissingKey ==
  { LoadOutcome("aborted", << >>, NoError),
    LoadOutcome("crashed", << >>, NoError) }

\* Faulty variant: the info is taken whenever the field is there.
LoadFenFileInfoAnyType(problem) ==
  IF problem.info_kind # "absent" THEN problem.info ELSE << >>

\* The info_ of the Board of a problem: SetInfo is called when the problem
\* contains "info" and the field is a string.
LoadFenFileInfo(problem) ==
  IF problem.info_kind # "absent"
  THEN IF problem.info_kind = "string" THEN problem.info ELSE << >>
  ELSE << >>

\* return board.status();
LoadFenFileFailure(ret, status) == LoadOutcome("error", << >>, status)

RECURSIVE LoadFenFileLoop(_, _, _)
\* for (const auto& problem : problems["problems"])
LoadFenFileLoop(problems, i, ret) ==
  IF i > Len(problems) THEN { LoadOutcome("ok", ret, NoError) }
  ELSE LET problem == problems[i] IN
       IF problem.fen_kind = "missing" THEN JsonMissingKey
       ELSE IF problem.fen_kind # "string" THEN JsonException("type_error")
       ELSE LET board == FromFen(problem.fen) IN
            IF ~board.ok THEN { LoadFenFileFailure(ret, board.error) }
            ELSE LoadFenFileLoop(problems, i + 1,
                   Append(ret, [ pieces |-> board.pieces,
                                 white_to_move |-> board.white_to_move,
                                 info |-> LoadFenFileInfo(problem) ]))

\* LoadFile(path): the text of the file, the empty text when the file
\* cannot be opened ("" stands for the empty text, "text" for any other).
LoadFile(doc) == IF doc.kind = "unreadable" THEN "" ELSE "text"

\* LoadFenFile(path): the outcomes of one call.
LoadFenFile(doc) ==
  IF LoadFile(doc) = "" \/ doc.kind = "malformed"
  THEN JsonException("parse_error")
  ELSE IF doc.kind = "array" THEN JsonException("type_error")
  ELSE IF doc.kind = "no_problems" THEN LoadFenFileLoop(<< >>, 1, << >>)
  ELSE LoadFenFileLoop(doc.problems, 1, << >>)

(***************************************************************************)
(* The FEN texts given to FromFen                                          *)
(***************************************************************************)

\* How many rank-groups of a generated FEN differ from "8".
MaxOccupiedRanks == 1

\* The largest number of rank-groups in the FENs of RankCountFens.
MaxRankGroups == 9

\* How many times Rotate() is called on one Board.
MaxRotations == 2

EmptyRank == << "8" >>

\* Rank-groups: exactly 8 files, canonical or not ("44", a zero digit),
\* fewer than 8 files, more than 8 files with and without a piece off the
\* board, a 9-character group, and groups with a character that is no piece.
RankGroups ==
  { << "r", "n", "b", "q", "k", "b", "n", "r" >>,
    << "1", "p", "2", "Q", "3" >>,
    << "k", "0", "K", "6" >>,
    << >>,
    << "3", "n" >>,
    << "8", "p" >>,
    << "p", "p", "p", "p", "p", "p", "p", "p", "p" >>,
    << "4", "x", "3" >> }

\* What follows the placement field: no second field, the two sides,
\* an upper-case W, an empty second field (two spaces), and full tails.
Tails ==
  { << >>,
    << " ", "w" >>,
    << " ", "b" >>,
    << " ", "W" >>,
    << " ", " ", "w" >>,
    << " ", "w", " ", "-", " ", "-", " ", "0", " ", "1" >>,
    << " ", "b", " ", "K", "Q", "k", "q", " ", "e", "3", " ", "0", " ", "2" >> }

\* The tails of the generated placements.
SideTails == { << >>, << " ", "w" >>, << " ", "b" >> }

\* The placements of 8 rank-groups of which at most MaxOccupiedRanks are not
\* "8"; those are drawn from RankGroups.
Placements ==
  UNION { { [ k \in 1..8 |-> IF k \in S THEN g[k] ELSE EmptyRank ]
              : g \in [ S -> RankGroups ] }
          : S \in { T \in SUBSET (1..8) : Cardinality(T) <= MaxOccupiedRanks } }

GeneratedFens ==
  { StrJoin(p, << "/" >>) \o t : p \in Placements, t \in SideTails }

\* FENs of 0 to MaxRankGroups rank-groups "8" (0 groups: an empty placement).
RankCountFens ==
  { StrJoin([ k \in 1..n |-> EmptyRank ], << "/" >>) \o t
      : n \in 0..MaxRankGroups, t \in Tails }

\* rnbqkbnr/pppppppp/8/8/8/8/PPPPPPPP/RNBQKBNR w - - 0 1
StartFen ==
  << "r", "n", "b", "q", "k", "b", "n", "r", "/",
     "p", "p", "p", "p", "p", "p", "p", "p", "/",
     "8", "/", "8", "/", "8", "/", "8", "/",
     "P", "P", "P", "P", "P", "P", "P", "P", "/",
     "R", "N", "B", "Q", "K", "B", "N", "R",
     " ", "w", " ", "-", " ", "-", " ", "0", " ", "1" >>

\* r3k2r/8/2n5/3pP3/8/44/6B1/R3K2R b KQkq d6 0 2
CastlingFen ==
  << "r", "3", "k", "2", "r", "/", "8", "/", "2", "n", "5", "/",
     "3", "p", "P", "3", "/", "8", "/", "4", "4", "/", "6", "B", "1", "/",
     "R", "3", "K", "2", "R",
     " ", "b", " ", "K", "Q", "k", "q", " ", "d", "6", " ", "0", " ", "2" >>

\* 8/8/8/8/8/8/8 w - - 0 1 (7 rank-groups)
SevenRanksFen ==
  << "8", "/", "8", "/", "8", "/", "8", "/", "8", "/", "8", "/", "8",
     " ", "w", " ", "-", " ", "-", " ", "0", " ", "1" >>

\* 7k/8p/8/8/8/8/9Q/K7 b (pieces off the board in two ranks)
OffBoardFen ==
  << "7", "k", "/", "8", "p", "/", "8", "/", "8", "/", "8", "/", "8", "/",
     "9", "Q", "/", "K", "7", " ", "b" >>

\* 9/8/8/8/8/8/8/8 w - - 0 1
NineFen ==
  << "9", "/", "8", "/", "8", "/", "8", "/", "8", "/", "8", "/", "8", "/", "8",
     " ", "w", " ", "-", " ", "-", " ", "0", " ", "1" >>

\* /5b5/8/8/44/8/3n/K7 w (an empty group, groups of more and of fewer than
\* 8 files, every piece on the board)
LooseFen ==
  << "/", "5", "b", "5", "/", "8", "/", "8", "/", "4", "4", "/", "8", "/",
     "3", "n", "/", "K", "7", " ", "w" >>

\* 8/8/8/8/8/8/8/3X4 b (an upper-case letter that is no piece)
BadLetterFen ==
  << "8", "/", "8", "/", "8", "/", "8", "/", "8", "/", "8", "/", "8", "/",
     "3", "X", "4", " ", "b" >>

LiteralFens ==
  { StartFen, CastlingFen, SevenRanksFen, OffBoardFen, NineFen, LooseFen,
    BadLetterFen }

FenInputs == GeneratedFens \cup RankCountFens \cup LiteralFens

(***************************************************************************)
(* State                                                                   *)
(***************************************************************************)

VARIABLES
  fen,             \* the text given to FromFen
  status,          \* "none" before FromFen, then "ok" (a Board) or "error"
  error,           \* the absl::Status FromFen returned
  pieces_,         \* ChessBoard::pieces_
  white_to_move_,  \* ChessBoard::white_to_move_
  info_,           \* ChessBoard::info_
  rotations,       \* number of Rotate() calls on the Board so far
  beforeRotate,    \* the Board as it was before each of these calls
  fenOut,          \* the last Fen() call: its outcome and the Board it saw
  roundTrip,       \* the last FromFen(b.Fen()): its Board and that Board's Fen()
  atOut,           \* the last AtPosition() call: its result and the Board it saw
  call,            \* the last call of a free-standing function and its result
  back,            \* the call made on that result, for the round trips
  load,            \* the file given to LoadFenFile and what the call ended in
  quiz,            \* a trainer program: its input, its position, its output
  piecesOut        \* the last BoardPieces() call: its result and the Board it saw

vars == << fen, status, error, pieces_, white_to_move_, info_, rotations,
          beforeRotate, fenOut, roundTrip, atOut, call, back, load, quiz,
          piecesOut >>

trainerVars == << load, quiz, piecesOut >>

NoFenOut ==
  [ called |-> FALSE, crashed |-> FALSE, text |-> << >>,
    pieces |-> << >>, white_to_move |-> TRUE, rotations |-> 0 ]

NoRoundTrip ==
  [ done |-> FALSE, from |-> NoFenOut, ok |-> FALSE, pieces |-> << >>,
    white_to_move |-> TRUE, crashed |-> FALSE, text |-> << >> ]

\* No AtPosition() call made yet.
NoAtOut ==
  [ called |-> FALSE, position |-> NoPosition, piece |-> NoPiece,
    pieces |-> << >>, white_to_move |-> TRUE, info |-> << >> ]

\* No call made yet. A call keeps its arguments (str, position, other,
\* piece, language, positions) and what it returned (ok, error,
\* out_position, out_piece, out_str, order, color, out_positions).
NoCall ==
  [ op |-> "none", str |-> << >>, position |-> NoPosition,
    other |-> NoPosition, piece |-> NoPiece, language |-> "kEnglish",
    ok |-> FALSE, error |-> NoError, out_position |-> NoPosition,
    out_piece |-> NoPiece, out_str |-> << >>, order |-> "equal",
    color |-> "None", positions |-> << >>, out_positions |-> << >> ]

\* A file that is never loaded.
NoDocument == [ kind |-> "unreadable", problems |-> << >> ]

\* No LoadFenFile call made yet.
NoLoad ==
  [ called |-> FALSE, doc |-> NoDocument,
    outcome |-> LoadOutcome("none", << >>, NoError) ]

\* A default-constructed ChessBoard.
EmptyBoard == [ pieces |-> << >>, white_to_move |-> TRUE, info |-> << >> ]

\* No trainer program started.  program is "memory" or "bishop"; pc is
\* "start", "loaded" (LoadFenFile has returned the problems), "loop" (at
\* the head of the while (true) loop), "returned", "terminated" (by an
\* exception) or "crashed"; lines and good are std::cin (the lines not read
\* yet, and whether the stream is still good); input is the string the
\* lines are read into; access is the last element access of a vector;
\* question, answer and output are the question of the last round of the
\* loop, the line read as its answer and what was printed about it.
NoQuiz ==
  [ program |-> "none", pc |-> "none", doc |-> NoDocument,
    problem_number |-> 0, lines |-> << >>, good |-> TRUE, input |-> << >>,
    problems |-> << >>, problem |-> EmptyBoard, board_pieces |-> << >>,
    access |-> [ used |-> FALSE, size |-> 0, index |-> 0 ],
    question |-> [ type |-> "none", position |-> NoPosition, rank_number |-> 0,
                   other |-> NoPosition, solutions |-> << >> ],
    answer |-> << >>, output |-> << >>, status |-> NoError ]

\* No BoardPieces() call made yet.
NoPiecesOut ==
  [ called |-> FALSE, board_pieces |-> << >>, pieces |-> << >>,
    white_to_move |-> TRUE, info |-> << >>, rotations |-> 0 ]

\* A default-constructed ChessBoard (white_to_move_ = true) and a FEN text
\* not parsed yet.
Init ==
  /\ fen \in FenInputs
  /\ status = "none"
  /\ error = NoError
  /\ pieces_ = << >>
  /\ white_to_move_ = TRUE
  /\ info_ = << >>
  /\ rotations = 0
  /\ beforeRotate = << >>
  /\ fenOut = NoFenOut
  /\ roundTrip = NoRoundTrip
  /\ atOut = NoAtOut
  /\ call = NoCall
  /\ back = NoCall
  /\ load = NoLoad
  /\ quiz = NoQuiz
  /\ piecesOut = NoPiecesOut

\* board = ChessBoard::FromFen(fen)
DoFromFen ==
  /\ status = "none"
  /\ LET r == FromFen(fen) IN
       /\ status' = IF r.ok THEN "ok" ELSE "error"
       /\ error' = r.error
       /\ pieces_' = r.pieces
       /\ white_to_move_' = r.white_to_move
  /\ UNCHANGED << fen, info_, rotations, beforeRotate, fenOut, roundTrip,
                  atOut, call, back, trainerVars >>

\* board.Rotate(); as in the trainers, a Board is rotated before it is
\* serialised.
DoRotate ==
  /\ status = "ok"
  /\ ~fenOut.called
  /\ rotations < MaxRotations
  /\ white_to_move_' = ~white_to_move_
  /\ pieces_' = [ i \in 1..Len(pieces_) |-> RotatePiece(pieces_[i]) ]
  /\ rotations' = rotations + 1
  /\ beforeRotate' = Append(beforeRotate,
                            [ pieces |-> pieces_,
                              white_to_move |-> white_to_move_,
                              info |-> info_ ])
  /\ UNCHANGED << fen, status, error, info_, fenOut, roundTrip, atOut, call,
                  back, trainerVars >>

\* board.Fen()
DoFen ==
  /\ status = "ok"
  /\ \E o \in Fen(pieces_, white_to_move_) :
       fenOut' = [ called |-> TRUE, crashed |-> o.crashed, text |-> o.text,
                   pieces |-> pieces_, white_to_move |-> white_to_move_,
                   rotations |-> rotations ]
  /\ UNCHANGED << fen, status, error, pieces_, white_to_move_, info_,
                  rotations, beforeRotate, roundTrip, atOut, call, back, trainerVars >>

\* ChessBoard::FromFen(board.Fen()) and Fen() of the Board it returns
DoRoundTrip ==
  /\ fenOut.called
  /\ ~fenOut.crashed
  /\ LET r == FromFen(fenOut.text) IN
       \E o \in IF r.ok THEN Fen(r.pieces, r.white_to_move)
                ELSE { [ crashed |-> FALSE, text |-> << >> ] } :
         roundTrip' = [ done |-> TRUE, from |-> fenOut, ok |-> r.ok,
                        pieces |-> r.pieces, white_to_move |-> r.white_to_move,
                        crashed |-> o.crashed, text |-> o.text ]
  /\ UNCHANGED << fen, status, error, pieces_, white_to_move_, info_,
                  rotations, beforeRotate, fenOut, atOut, call, back, trainerVars >>

Next == DoFromFen \/ DoRotate \/ DoFen \/ DoRoundTrip

Spec == Init /\ [][Next]_vars

(***************************************************************************)
(* A Board that is given an info text, rotated and asked for its squares   *)
(***************************************************************************)

\* The info texts given to SetInfo.
InfoInputs == { << "m", "1" >> }

QueryFiles == { 1, 4, 5, 8, 9 }

QueryRanks == { 1, 2, 7, 8 }

\* The positions given to AtPosition: squares of the board, occupied or
\* not in the Boards below, and positions beside it.
QueryPositions ==
  { [ file |-> f, rank |-> r ] : f \in QueryFiles, r \in QueryRanks }

InitBoard ==
  /\ fen \in LiteralFens
  /\ status = "none"
  /\ error = NoError
  /\ pieces_ = << >>
  /\ white_to_move_ = TRUE
  /\ info_ = << >>
  /\ rotations = 0
  /\ beforeRotate = << >>
  /\ fenOut = NoFenOut
  /\ roundTrip = NoRoundTrip
  /\ atOut = NoAtOut
  /\ call = NoCall
  /\ back = NoCall
  /\ load = NoLoad
  /\ quiz = NoQuiz
  /\ piecesOut = NoPiecesOut

\* board.SetInfo(info)
DoSetInfo ==
  /\ status = "ok"
  /\ \E info \in InfoInputs : info_' = info
  /\ UNCHANGED << fen, status, error, pieces_, white_to_move_, rotations,
                  beforeRotate, fenOut, roundTrip, atOut, call, back, trainerVars >>

\* board.AtPosition(position), a const member function
DoAtPosition ==
  /\ status = "ok"
  /\ \E position \in QueryPositions :
       atOut' = [ called |-> TRUE, position |-> position,
                  piece |-> AtPosition(pieces_, position),
                  pieces |-> pieces_, white_to_move |-> white_to_move_,
                  info |-> info_ ]
  /\ UNCHANGED << fen, status, error, pieces_, white_to_move_, info_,
                  rotations, beforeRotate, fenOut, roundTrip, call, back, trainerVars >>

NextBoard == DoFromFen \/ DoSetInfo \/ DoRotate \/ DoAtPosition

SpecBoard == InitBoard /\ [][NextBoard]_vars

(***************************************************************************)
(* The free-standing functions and BoardPosition's members, each called on *)
(* arguments of a bounded set, and on each other's results. One call is    *)
(* made (call), then at most one call on its result (back).                *)
(***************************************************************************)

\* Coordinates reach this far beyond 1..8 on both sides.
CoordMargin == 1

\* The longest text given to BoardPosition::FromString and to
\* BoardPiece::FromString.
MaxTextLen == 3

Coords == (1 - CoordMargin)..(8 + CoordMargin)

PositionInputs == [ file : Coords, rank : Coords ]

ChessLanguage == { "kSpanish", "kEnglish", "kUnicode", "kEnglishFull" }

BoardPieceInputs ==
  [ piece : [ type : PieceType, color : Color ], position : PositionInputs ]

TextsUpTo(alphabet, n) == UNION { [ 1..k -> alphabet ] : k \in 0..n }

\* File letters at both ends, in the middle and just beyond, an upper-case
\* letter, rank digits at both ends, in the middle and just beyond.
PositionAlphabet == { "a", "b", "e", "h", "i", "B", "1", "4", "8", "0", "9" }

PositionTexts == TextsUpTo(PositionAlphabet, MaxTextLen)

\* Piece letters of both cases (b is a file letter as well) and characters
\* that are no piece letter.
TokenFirstChars == { "N", "n", "B", "b", "X", "x", "1" }

TokenTexts ==
  { << >> } \cup
  { << c >> \o t : c \in TokenFirstChars,
                   t \in TextsUpTo(PositionAlphabet, MaxTextLen - 1) }

\* The longest list given to Normalize.
MaxListLen == 3

\* Squares in one rank, in one file and in different ranks and files, and
\* positions beside the board.
NormalizePositions ==
  { [ file |-> 1, rank |-> 1 ], [ file |-> 2, rank |-> 1 ],
    [ file |-> 1, rank |-> 2 ], [ file |-> 8, rank |-> 8 ],
    [ file |-> 0, rank |-> 1 ], [ file |-> 9, rank |-> 9 ] }

NormalizeInputs ==
  UNION { [ 1..n -> NormalizePositions ] : n \in 0..MaxListLen }

\* The squares RandomBoardPosition returns.
RandomBoardPositions == [ file : 1..8, rank : 1..8 ]

boardVars ==
  << fen, status, error, pieces_, white_to_move_, info_, rotations,
     beforeRotate, fenOut, roundTrip, atOut >>

InitText ==
  /\ fen = << >>
  /\ status = "none"
  /\ error = NoError
  /\ pieces_ = << >>
  /\ white_to_move_ = TRUE
  /\ info_ = << >>
  /\ rotations = 0
  /\ beforeRotate = << >>
  /\ fenOut = NoFenOut
  /\ roundTrip = NoRoundTrip
  /\ atOut = NoAtOut
  /\ call = NoCall
  /\ back = NoCall
  /\ load = NoLoad
  /\ quiz = NoQuiz
  /\ piecesOut = NoPiecesOut

\* The record of BoardPosition::FromString(str) and its result.
BoardPosition_FromStringCall(str) ==
  LET r == BoardPosition_FromString(str) IN
    [ NoCall EXCEPT !.op = "BoardPosition_FromString", !.str = str,
                    !.ok = r.ok, !.error = r.error,
                    !.out_position = r.position ]

\* The record of BoardPiece::FromString(str) and its result.
BoardPiece_FromStringCall(str) ==
  LET r == BoardPiece_FromString(str) IN
    [ NoCall EXCEPT !.op = "BoardPiece_FromString", !.str = str,
                    !.ok = r.ok, !.error = r.error,
                    !.out_piece = r.piece, !.out_position = r.position ]

\* The record of ToString(board_piece, language) and its result.
BoardPiece_ToStringCall(board_piece, language) ==
  [ NoCall EXCEPT !.op = "BoardPiece_ToString",
                  !.piece = board_piece.piece,
                  !.position = board_piece.position,
                  !.language = language,
                  !.out_str = BoardPiece_ToString(board_piece, language) ]

\* str = ToString(position)
DoBoardPosition_ToString ==
  /\ call.op = "none"
  /\ \E position \in PositionInputs :
       call' = [ NoCall EXCEPT !.op = "BoardPosition_ToString",
                               !.position = position,
                               !.out_str = BoardPosition_ToString(position) ]
  /\ UNCHANGED << boardVars, back, trainerVars >>

\* BoardPosition::FromString(str)
DoBoardPosition_FromString ==
  /\ call.op = "none"
  /\ \E str \in PositionTexts : call' = BoardPosition_FromStringCall(str)
  /\ UNCHANGED << boardVars, back, trainerVars >>

\* BoardPosition::FromString(ToString(position))
DoBoardPosition_FromStringBack ==
  /\ call.op = "BoardPosition_ToString"
  /\ back.op = "none"
  /\ back' = BoardPosition_FromStringCall(call.out_str)
  /\ UNCHANGED << boardVars, call, trainerVars >>

\* a <=> b, a < b, a == b
DoBoardPosition_Compare ==
  /\ call.op = "none"
  /\ \E a \in PositionInputs, b \in PositionInputs :
       call' = [ NoCall EXCEPT !.op = "BoardPosition_Compare",
                               !.position = a, !.other = b,
                               !.order = BoardPosition_Compare(a, b),
                               !.ok = BoardPosition_Equal(a, b) ]
  /\ UNCHANGED << boardVars, back, trainerVars >>

\* position.Color()
DoBoardPosition_Color ==
  /\ call.op = "none"
  /\ \E position \in PositionInputs :
       call' = [ NoCall EXCEPT !.op = "BoardPosition_Color",
                               !.position = position,
                               !.color = BoardPosition_Color(position) ]
  /\ UNCHANGED << boardVars, back, trainerVars >>

\* FromFenPieceChar(c)
DoFromFenPieceChar ==
  /\ call.op = "none"
  /\ \E c \in CharSet :
       LET r == FromFenPieceChar(c) IN
         call' = [ NoCall EXCEPT !.op = "FromFenPieceChar", !.str = << c >>,
                                 !.ok = r.ok, !.error = r.error,
                                 !.out_piece = r.piece ]
  /\ UNCHANGED << boardVars, back, trainerVars >>

\* str = ToString(board_piece, language)
DoBoardPiece_ToString ==
  /\ call.op = "none"
  /\ \E board_piece \in BoardPieceInputs, language \in ChessLanguage :
       call' = BoardPiece_ToStringCall(board_piece, language)
  /\ UNCHANGED << boardVars, back, trainerVars >>

\* BoardPiece::FromString(str)
DoBoardPiece_FromString ==
  /\ call.op = "none"
  /\ \E str \in TokenTexts : call' = BoardPiece_FromStringCall(str)
  /\ UNCHANGED << boardVars, back, trainerVars >>

\* BoardPiece::FromString(ToString(board_piece, language))
DoBoardPiece_FromStringBack ==
  /\ call.op = "BoardPiece_ToString"
  /\ back.op = "none"
  /\ back' = BoardPiece_FromStringCall(call.out_str)
  /\ UNCHANGED << boardVars, call, trainerVars >>

\* ToString(*BoardPiece::FromString(str), ChessLanguage::kEnglish)
DoBoardPiece_ToStringBack ==
  /\ call.op = "BoardPiece_FromString"
  /\ call.ok
  /\ back.op = "none"
  /\ back' = BoardPiece_ToStringCall(
               [ piece |-> call.out_piece, position |-> call.out_position ],
               "kEnglish")
  /\ UNCHANGED << boardVars, call, trainerVars >>

\* The record of Normalize(positions) and the list it leaves.
NormalizeCall(positions) ==
  [ NoCall EXCEPT !.op = "Normalize", !.positions = positions,
                  !.out_positions = Normalize(positions) ]

\* Normalize(positions)
DoNormalize ==
  /\ call.op = "none"
  /\ \E positions \in NormalizeInputs : call' = NormalizeCall(positions)
  /\ UNCHANGED << boardVars, back, trainerVars >>

\* Normalize(positions) again, on the list the first call left
DoNormalizeBack ==
  /\ call.op = "Normalize"
  /\ back.op = "none"
  /\ back' = NormalizeCall(call.out_positions)
  /\ UNCHANGED << boardVars, call, trainerVars >>

\* The solutions of BishopIntercept::Run for its two random squares, b
\* drawn again as long as it equals a.
DoBishopInterceptSolutions ==
  /\ call.op = "none"
  /\ \E a \in RandomBoardPositions, b \in RandomBoardPositions :
       /\ ~BoardPosition_Equal(a, b)
       /\ call' = [ NoCall EXCEPT !.op = "BishopIntercept",
                                  !.position = a, !.other = b,
                                  !.out_positions =
                                    BishopInterceptSolutions(a, b) ]
  /\ UNCHANGED << boardVars, back, trainerVars >>

NextText ==
  \/ DoBoardPosition_ToString
  \/ DoBoardPosition_FromString
  \/ DoBoardPosition_FromStringBack
  \/ DoBoardPosition_Compare
  \/ DoBoardPosition_Color
  \/ DoFromFenPieceChar
  \/ DoBoardPiece_ToString
  \/ DoBoardPiece_FromString
  \/ DoBoardPiece_FromStringBack
  \/ DoBoardPiece_ToStringBack
  \/ DoNormalize
  \/ DoNormalizeBack
  \/ DoBishopInterceptSolutions

SpecText == InitText /\ [][NextText]_vars

(***************************************************************************)
(* A Board that is rotated and asked for its pieces                        *)
(***************************************************************************)

InitPieces ==
  /\ fen \in FenInputs
  /\ status = "none"
  /\ error = NoError
  /\ pieces_ = << >>
  /\ white_to_move_ = TRUE
  /\ info_ = << >>
  /\ rotations = 0
  /\ beforeRotate = << >>
  /\ fenOut = NoFenOut
  /\ roundTrip = NoRoundTrip
  /\ atOut = NoAtOut
  /\ call = NoCall
  /\ back = NoCall
  /\ load = NoLoad
  /\ quiz = NoQuiz
  /\ piecesOut = NoPiecesOut

\* board.BoardPieces(), a const member function
DoBoardPieces ==
  /\ status = "ok"
  /\ piecesOut' = [ called |-> TRUE, board_pieces |-> BoardPieces(pieces_),
                    pieces |-> pieces_, white_to_move |-> white_to_move_,
                    info |-> info_, rotations |-> rotations ]
  /\ UNCHANGED << boardVars, call, back, load, quiz >>

NextPieces == DoFromFen \/ DoRotate \/ DoBoardPieces

SpecPieces == InitPieces /\ [][NextPieces]_vars

(***************************************************************************)
(* LoadFenFile called on a file                                            *)
(***************************************************************************)

\* The longest "problems" array of a file.
MaxProblems == 2

\* The problems of a file: FEN texts FromFen accepts, with the info absent,
\* a string or a number; FEN texts it rejects for two different reasons;
\* a problem without "fen" and one whose "fen" is a number.
ProblemInputs ==
  { [ fen_kind |-> "string", fen |-> StartFen,
      info_kind |-> "absent", info |-> << >> ],
    [ fen_kind |-> "string", fen |-> CastlingFen,
      info_kind |-> "string", info |-> << "m", "1" >> ],
    [ fen_kind |-> "string", fen |-> LooseFen,
      info_kind |-> "number", info |-> << "7" >> ],
    [ fen_kind |-> "string", fen |-> SevenRanksFen,
      info_kind |-> "string", info |-> << "m", "2" >> ],
    [ fen_kind |-> "string", fen |-> BadLetterFen,
      info_kind |-> "absent", info |-> << >> ],
    [ fen_kind |-> "missing", fen |-> << >>,
      info_kind |-> "string", info |-> << "m", "3" >> ],
    [ fen_kind |-> "number", fen |-> << "5" >>,
      info_kind |-> "absent", info |-> << >> ] }

Documents ==
  { [ kind |-> k, problems |-> << >> ] :
      k \in { "unreadable", "malformed", "array", "no_problems" } }
  \cup
  { [ kind |-> "object", problems |-> ps ] :
      ps \in UNION { [ 1..n -> ProblemInputs ] : n \in 0..MaxProblems } }

InitLoad ==
  /\ fen = << >>
  /\ status = "none"
  /\ error = NoError
  /\ pieces_ = << >>
  /\ white_to_move_ = TRUE
  /\ info_ = << >>
  /\ rotations = 0
  /\ beforeRotate = << >>
  /\ fenOut = NoFenOut
  /\ roundTrip = NoRoundTrip
  /\ atOut = NoAtOut
  /\ call = NoCall
  /\ back = NoCall
  /\ load \in { [ NoLoad EXCEPT !.doc = doc ] : doc \in Documents }
  /\ quiz = NoQuiz
  /\ piecesOut = NoPiecesOut

\* LoadFenFile(path)
DoLoadFenFile ==
  /\ ~load.called
  /\ \E outcome \in LoadFenFile(load.doc) :
       load' = [ called |-> TRUE, doc |-> load.doc, outcome |-> outcome ]
  /\ UNCHANGED << boardVars, call, back, quiz, piecesOut >>

NextLoad == DoLoadFenFile

SpecLoad == InitLoad /\ [][NextLoad]_vars

(***************************************************************************)
(* The trainer programs: RunMemoryTrainer and RunBishopTrainer reading     *)
(* their answers from std::cin                                             *)
(***************************************************************************)

\* The longest input given to a trainer, in lines.
MaxLines == 2

\* exit, the empty line, K, Ka1, Ka1 zz, b2, none
QuizLines ==
  { << "e", "x", "i", "t" >>, << >>, << "K" >>, << "K", "a", "1" >>,
    << "K", "a", "1", " ", "z", "z" >>, << "b", "2" >>,
    << "n", "o", "n", "e" >> }

QuizInputs == UNION { [ 1..n -> QuizLines ] : n \in 0..MaxLines }

\* The problem_number argument: the numbers of the problems of a file and
\* numbers on both sides of them.
ProblemNumbers == (0 - 1)..3

\* An element of "problems" with a FEN text and no info.
Problem(fen_text) ==
  [ fen_kind |-> "string", fen |-> fen_text,
    info_kind |-> "absent", info |-> << >> ]

\* The files given to the memory trainer: two problems, the second one a
\* Board without pieces; no problem; a FEN text FromFen rejects; a file
\* that cannot be read.
QuizDocuments ==
  { [ kind |-> "object", problems |-> << Problem(LooseFen), Problem(NineFen) >> ],
    [ kind |-> "object", problems |-> << >> ],
    [ kind |-> "object", problems |-> << Problem(SevenRanksFen) >> ],
    [ kind |-> "unreadable", problems |-> << >> ] }

\* The values of absl::Uniform(absl::IntervalClosed, gen, 1, 8)
UniformOneToEight == 1..8

\* The squares of a spot check that is not taken from the pieces: a square
\* with a piece and one without in the Boards above.
SpotSquares ==
  { p \in [ file : UniformOneToEight, rank : UniformOneToEight ] :
      p.file = p.rank /\ p.file \in { 1, 4 } }

InitQuiz ==
  /\ fen = << >>
  /\ status = "none"
  /\ error = NoError
  /\ pieces_ = << >>
  /\ white_to_move_ = TRUE
  /\ info_ = << >>
  /\ rotations = 0
  /\ beforeRotate = << >>
  /\ fenOut = NoFenOut
  /\ roundTrip = NoRoundTrip
  /\ atOut = NoAtOut
  /\ call = NoCall
  /\ back = NoCall
  /\ load = NoLoad
  /\ piecesOut = NoPiecesOut
  /\ quiz \in
       { [ NoQuiz EXCEPT !.program = "memory", !.pc = "start", !.doc = doc,
                         !.problem_number = n, !.lines = lines ] :
           doc \in QuizDocuments, n \in ProblemNumbers, lines \in QuizInputs }
       \cup { [ NoQuiz EXCEPT !.program = "bishop", !.pc = "loop",
                              !.lines = lines ] : lines \in QuizInputs }

\* std::getline(std::cin, input) in the state q: a line is read; at the
\* end of the input the string is emptied and the stream fails; on a
\* failed stream nothing is done.
Getline(q) ==
  IF ~q.good THEN q
  ELSE IF q.lines = << >>
  THEN [ q EXCEPT !.input = << >>, !.good = FALSE ]
  ELSE [ q EXCEPT !.input = Head(q.lines), !.lines = Tail(q.lines) ]

\* The lines 22 to 27 of RunMemoryTrainer: --problem_number and
\* LoadFenFile(path).
DoMemoryLoad ==
  /\ quiz.program = "memory"
  /\ quiz.pc = "start"
  /\ \E outcome \in LoadFenFile(quiz.doc) :
       quiz' = [ quiz EXCEPT
                   !.problem_number = quiz.problem_number - 1,
                   !.pc = IF outcome.kind = "ok" THEN "loaded"
                          ELSE IF outcome.kind = "error" THEN "returned"
                          ELSE IF outcome.kind = "exception" THEN "terminated"
                          ELSE "crashed",
                   !.problems = outcome.boards,
                   !.status = outcome.error ]
  /\ UNCHANGED << boardVars, call, back, load, piecesOut >>

\* The lines 29 to 42: problems[problem_number], Print, the line read
\* while the user memorizes, BoardPieces().  An index outside the vector is
\* undefined behaviour: the program may crash or go on with whatever it
\* reads as a Board (here one without pieces).  Print calls Fen().
DoMemorySelect ==
  /\ quiz.program = "memory"
  /\ quiz.pc = "loaded"
  /\ LET size == Len(quiz.problems)
         index == quiz.problem_number
         q == [ quiz EXCEPT !.access = [ used |-> TRUE, size |-> size,
                                         index |-> index ] ]
         Go(problem) ==
           \E o \in Fen(problem.pieces, problem.white_to_move) :
             IF o.crashed THEN quiz' = [ q EXCEPT !.pc = "crashed" ]
             ELSE quiz' = [ Getline(q) EXCEPT
                              !.input = << >>,
                              !.problem = problem,
                              !.board_pieces = BoardPieces(problem.pieces),
                              !.pc = "loop" ]
     IN  IF index >= 0 /\ index < size
         THEN Go(quiz.problems[index + 1])
         ELSE \/ quiz' = [ q EXCEPT !.pc = "crashed" ]
              \/ Go(EmptyBoard)
  /\ UNCHANGED << boardVars, call, back, load, piecesOut >>

ExitText == << "e", "x", "i", "t" >>

NoneText == << "n", "o", "n", "e" >>

\* One round of the loop asking what is on pos (question_type 0), from the
\* state q.  After "Invalid response" and "Invalid piece notation" the
\* round ends by continue, before the getline and input.clear() at the end
\* of the loop body.
SpotCheckRound(q, pos) ==
  LET asked == Getline([ q EXCEPT !.question =
                           [ NoQuiz.question EXCEPT !.type = "spot",
                                                    !.position = pos ],
                         !.output = << >> ])
      read == [ asked EXCEPT !.answer = asked.input ]
      input == IF read.input \in { << "e", "m", "p", "t", "y" >>,
                                   << "n", "o", "t", "h", "i", "n", "g" >>,
                                   << >> }
               THEN NoneText ELSE read.input
  IN  IF read.input = ExitText
      THEN [ read EXCEPT !.pc = "returned", !.status = NoError ]
      ELSE IF input # NoneText /\ Len(input) # 1
      THEN [ read EXCEPT !.input = input, !.output = << "Invalid response" >> ]
      ELSE IF input # NoneText /\ ~FromFenPieceChar(input[1]).ok
      THEN [ read EXCEPT !.input = input,
                         !.output = << "Invalid piece notation" >> ]
      ELSE LET user_piece == IF input # NoneText
                             THEN FromFenPieceChar(input[1]).piece
                             ELSE NoPiece
               actual_piece == AtPosition(q.board_pieces, pos)
           IN  [ Getline([ read EXCEPT !.input = input ]) EXCEPT
                   !.input = << >>,
                   !.output = IF actual_piece = user_piece
                              THEN << "Correct!" >> ELSE << "Incorrect!" >> ]

RECURSIVE SortPiecesInsert(_, _)
\* The sorted list of pieces with the piece bp put in its place.
SortPiecesInsert(sorted, bp) ==
  IF sorted = << >> THEN << bp >>
  ELSE IF BoardPosition_Less(bp.position, Head(sorted).position)
       THEN << bp >> \o sorted
       ELSE << Head(sorted) >> \o SortPiecesInsert(Tail(sorted), bp)

RECURSIVE SortPieces(_)
\* std::ranges::sort(pieces, a.position < b.position).  Pieces on one
\* position may come in any order; they are left in the order of the list.
SortPieces(pieces) ==
  IF pieces = << >> THEN << >>
  ELSE SortPiecesInsert(SortPieces(SubSeq(pieces, 1, Len(pieces) - 1)),
                        pieces[Len(pieces)])

RECURSIVE ParseUserPieces(_, _, _)
\* The loop over the parts of an answer: the pieces read before the first
\* part BoardPiece::FromString rejects, where the loop is left by break.
ParseUserPieces(parts, i, user_pieces) ==
  IF i > Len(parts) THEN [ user_pieces |-> user_pieces, rejected |-> FALSE ]
  ELSE LET bp_or == BoardPiece_FromString(parts[i]) IN
       IF ~bp_or.ok THEN [ user_pieces |-> user_pieces, rejected |-> TRUE ]
       ELSE ParseUserPieces(parts, i + 1,
              Append(user_pieces, [ position |-> bp_or.position,
                                    piece |-> bp_or.piece ]))

\* One round of the loop asking what is on a rank (question_type 1).
RankRound(q, rank_number) ==
  LET asked == Getline([ q EXCEPT !.question =
                           [ NoQuiz.question EXCEPT !.type = "rank",
                                                    !.rank_number = rank_number ],
                         !.output = << >>,
                         !.input = << >> ])
      read == [ asked EXCEPT !.answer = asked.input ]
      parts == SelectSeq(StrSplit(read.input, " "), LAMBDA part : part # << >>)
      parsed == ParseUserPieces(parts, 1, << >>)
      user_pieces == SortPieces(parsed.user_pieces)
      actual_pieces ==
        SortPieces(SelectSeq(q.board_pieces,
                             LAMBDA bp : bp.position.rank = rank_number))
      equal == IF Len(actual_pieces) # Len(user_pieces) THEN FALSE
               ELSE \A i \in 1..Len(user_pieces) :
                      /\ user_pieces[i].position = actual_pieces[i].position
                      /\ user_pieces[i].piece = actual_pieces[i].piece
  IN  IF read.input = ExitText
      THEN [ read EXCEPT !.pc = "returned", !.status = NoError ]
      ELSE [ Getline(read) EXCEPT
               !.input = << >>,
               !.output =
                 ( IF parsed.rejected
                   THEN << "Invalid board piece notation" >> ELSE << >> )
                 \o ( IF equal THEN << "Correct!" >> ELSE << "Incorrect" >> ) ]

\* A round with question_type 0.  With from_pieces the square is that of
\* board_pieces[i], i = absl::Uniform(gen, 0U, board_pieces.size()), which
\* is 0 for a Board without pieces: an element access outside the vector,
\* undefined behaviour (a crash, or whatever is read as a position).
DoSpotCheck ==
  /\ quiz.program = "memory"
  /\ quiz.pc = "loop"
  /\ LET size == Len(quiz.board_pieces)
         Accessed(i) == [ quiz EXCEPT !.access = [ used |-> TRUE, size |-> size,
                                                   index |-> i ] ]
     IN  \/ /\ size > 0
            /\ \E i \in 0..(size - 1) :
                 quiz' = SpotCheckRound(Accessed(i),
                                        quiz.board_pieces[i + 1].position)
         \/ /\ size = 0
            /\ \/ quiz' = [ Accessed(0) EXCEPT !.pc = "crashed" ]
               \/ quiz' = SpotCheckRound(Accessed(0), NoPosition)
         \/ \E pos \in SpotSquares : quiz' = SpotCheckRound(quiz, pos)
  /\ UNCHANGED << boardVars, call, back, load, piecesOut >>

\* A round with question_type 1.
DoRankDescription ==
  /\ quiz.program = "memory"
  /\ quiz.pc = "loop"
  /\ \E rank_number \in UniformOneToEight :
       quiz' = RankRound(quiz, rank_number)
  /\ UNCHANGED << boardVars, call, back, load, piecesOut >>

\* CompareSortedPositions(a, b) of bishop_trainer.cc
CompareSortedPositions(a, b) ==
  IF Len(a) # Len(b) THEN FALSE
  ELSE \A i \in 1..Len(a) : BoardPosition_Equal(a[i], b[i])

RECURSIVE ParseUserSolutions(_, _, _)
\* The loop over the parts of an answer of BishopIntercept::Run: the
\* positions read, and whether a part was no position of the board.
ParseUserSolutions(parts, i, user_solutions) ==
  IF i > Len(parts)
  THEN [ user_solutions |-> user_solutions, invalid |-> FALSE ]
  ELSE LET pos == BoardPosition_FromString(parts[i]) IN
       IF ~pos.ok \/ ~IsValid(pos.position)
       THEN [ user_solutions |-> user_solutions, invalid |-> TRUE ]
       ELSE ParseUserSolutions(parts, i + 1,
                               Append(user_solutions, pos.position))

\* BishopIntercept::Run with the squares a and b drawn, from the state q.
\* The answer is read into a string of its own, empty before the read.
BishopInterceptRun(q, a, b) ==
  LET solutions == BishopInterceptSolutions(a, b)
      asked == Getline([ q EXCEPT !.question =
                           [ NoQuiz.question EXCEPT !.type = "bishop",
                                                    !.position = a,
                                                    !.other = b,
                                                    !.solutions = solutions ],
                         !.output = << >>,
                         !.input = << >> ])
      read == [ asked EXCEPT !.answer = asked.input ]
      parts == StrSplit(read.input, " ")
      none == \/ Len(parts) = 0
              \/ Len(parts) = 1 /\ AsciiStrToLower(parts[1]) = NoneText
      parsed == IF none THEN [ user_solutions |-> << >>, invalid |-> FALSE ]
                ELSE ParseUserSolutions(parts, 1, << >>)
      user_solutions == IF none THEN << >>
                        ELSE Normalize(parsed.user_solutions)
  IN  [ read EXCEPT
          !.output = IF parsed.invalid THEN << "Invalid position" >>
                     ELSE IF ~CompareSortedPositions(user_solutions, solutions)
                     THEN << "Incorrect!" >>
                     ELSE << "Correct!" >> ]

\* The squares drawn for a and b in the rounds of the bishop trainer: pairs
\* with no solution, with one on the board, and the other way round.
BishopSquares == { p \in RandomBoardPositions : p.rank = 1 /\ p.file <= 3 }

\* A round of the loop of RunBishopTrainer: the one trainer of the list
\* runs, then a line is read and ignored.  The loop has no way out.
DoBishopIntercept ==
  /\ quiz.program = "bishop"
  /\ quiz.pc = "loop"
  /\ \E a \in BishopSquares : \E b \in BishopSquares \ { a } :
       quiz' = [ Getline(BishopInterceptRun(quiz, a, b)) EXCEPT
                   !.input = << >> ]
  /\ UNCHANGED << boardVars, call, back, load, piecesOut >>

NextQuiz ==
  \/ DoMemoryLoad
  \/ DoMemorySelect
  \/ DoSpotCheck
  \/ DoRankDescription
  \/ DoBishopIntercept

SpecQuiz == InitQuiz /\ [][NextQuiz]_vars

\* A round of the loop of a trainer.
QuizRound == DoSpotCheck \/ DoRankDescription \/ DoBishopIntercept

\* The trainers with the rounds of their loops played: while (true) goes
\* on to the next round, and a read of std::cin at the end of the input
\* returns at once, so a round that can be played is played.
SpecQuizLive == InitQuiz /\ [][NextQuiz]_vars /\ WF_vars(QuizRound)

(***************************************************************************)
(* Reading a FEN text by positions, for the statements below               *)
(***************************************************************************)

\* The indices of the character c in the text t.
IndicesOf(t, c) == { i \in 1..Len(t) : t[i] = c }

Min(S) == CHOOSE m \in S : \A n \in S : m <= n

\* The text before the first space (the whole text if it has no space).
PlacementField(t) ==
  IF IndicesOf(t, " ") = {} THEN t
  ELSE SubSeq(t, 1, Min(IndicesOf(t, " ")) - 1)

HasSecondField(t) == IndicesOf(t, " ") # {}

\* The text between the first space and the next one (or the end).
SecondField(t) ==
  LET first == Min(IndicesOf(t, " "))
      later == { i \in IndicesOf(t, " ") : i > first }
  IN  SubSeq(t, first + 1, IF later = {} THEN Len(t) ELSE Min(later) - 1)

\* The rank-groups of a placement, in order: the k-th one lies between the
\* (k-1)-th and the k-th slash.
GroupsOf(p) ==
  LET slashes == IndicesOf(p, "/")
      count   == Cardinality(slashes) + 1
      nth     == [ n \in 1..(count - 1) |->
                     CHOOSE i \in slashes :
                       Cardinality({ j \in slashes : j <= i }) = n ]
  IN  [ k \in 1..count |->
          SubSeq(p, IF k = 1 THEN 1 ELSE nth[k - 1] + 1,
                    IF k = count THEN Len(p) ELSE nth[k] - 1) ]

DigitChars == { "0", "1", "2", "3", "4", "5", "6", "7", "8", "9" }

PieceLetters ==
  { "r", "n", "b", "q", "k", "p", "R", "N", "B", "Q", "K", "P" }

\* The value of a digit character.
DigitValue(c) ==
  CASE c = "0" -> 0 [] c = "1" -> 1 [] c = "2" -> 2 [] c = "3" -> 3
    [] c = "4" -> 4 [] c = "5" -> 5 [] c = "6" -> 6 [] c = "7" -> 7
    [] c = "8" -> 8 [] c = "9" -> 9

RECURSIVE FilesUpTo(_, _)
\* The files the first n characters of a rank-group describe: the digit
\* values plus one per other character.
FilesUpTo(g, n) ==
  IF n = 0 THEN 0
  ELSE FilesUpTo(g, n - 1)
         + (IF g[n] \in DigitChars THEN DigitValue(g[n]) ELSE 1)

\* A FEN whose placement has 8 rank-groups, each of digits and piece letters
\* describing exactly 8 files.
ExactFen(t) ==
  LET gs == GroupsOf(PlacementField(t)) IN
  /\ Len(gs) = 8
  /\ \A k \in 1..8 :
       /\ \A i \in 1..Len(gs[k]) : gs[k][i] \in DigitChars \cup PieceLetters
       /\ FilesUpTo(gs[k], Len(gs[k])) = 8

\* The elements of a sequence, as a set.
SetOf(seq) == { seq[i] : i \in 1..Len(seq) }

AllValid(pieces) == \A i \in 1..Len(pieces) : IsValid(pieces[i].position)

AllDistinct(pieces) ==
  \A i, j \in 1..Len(pieces) :
    i # j => pieces[i].position # pieces[j].position

(***************************************************************************)
(* C1  For every Board b that FromFen builds from a FEN of 8 rank-groups   *)
(* describing exactly 8 files each with valid piece letters,               *)
(* FromFen(b.Fen()) succeeds and FromFen(b.Fen()).Fen() equals b.Fen().    *)
(***************************************************************************)
C1_FenRoundTripStable ==
  (roundTrip.done /\ roundTrip.from.rotations = 0 /\ ExactFen(fen))
    => /\ roundTrip.ok
       /\ ~roundTrip.crashed
       /\ roundTrip.text = roundTrip.from.text

\* A round trip of a Board with pieces whose FEN was not canonical: Fen()
\* wrote a placement other than the one parsed.
C1_Witness ==
  /\ roundTrip.done /\ roundTrip.from.rotations = 0 /\ ExactFen(fen)
  /\ roundTrip.from.pieces # << >>
  /\ PlacementField(roundTrip.from.text) # PlacementField(fen)

(***************************************************************************)
(* C2  For every Board b built from a FEN of 8 rank-groups of exactly 8    *)
(* files each, also after any number of Rotate() calls, FromFen(b.Fen())   *)
(* has the same set of pieces (position, type, color) and the same         *)
(* white_to_move as b.                                                     *)
(***************************************************************************)
C2_RoundTripKeepsPiecesAndTurn ==
  (roundTrip.done /\ ExactFen(fen))
    => /\ roundTrip.ok
       /\ SetOf(roundTrip.pieces) = SetOf(roundTrip.from.pieces)
       /\ roundTrip.white_to_move = roundTrip.from.white_to_move

\* A round trip of a rotated Board that holds pieces of both colors.
C2_Witness ==
  /\ roundTrip.done /\ ExactFen(fen)
  /\ roundTrip.from.rotations >= 1
  /\ \E i, j \in 1..Len(roundTrip.from.pieces) :
       roundTrip.from.pieces[i].piece.color
         # roundTrip.from.pieces[j].piece.color

(***************************************************************************)
(* C3  For every Board, calling Rotate() twice in a row restores the       *)
(* position, type and color of every piece (the pieces are the same as a   *)
(* set) and restores the original white_to_move.                           *)
(***************************************************************************)
C3_RotateTwiceRestores ==
  rotations >= 2
    => LET b == beforeRotate[rotations - 1] IN
       /\ SetOf(pieces_) = SetOf(b.pieces)
       /\ white_to_move_ = b.white_to_move

\* Two rotations of a Board that holds pieces.
C3_Witness == rotations >= 2 /\ Len(pieces_) >= 2

(***************************************************************************)
(* C4  Every Board that FromFen returns successfully is fully valid: each  *)
(* piece has file and rank in 1..8; an input whose rank-group would put a  *)
(* piece outside files 1..8 produces a failure, not a Board.               *)
(***************************************************************************)
\* Some letter of some rank-group stands on a file beyond 8.
PutsPieceOffBoard(t) ==
  LET gs == GroupsOf(PlacementField(t)) IN
  \E k \in 1..Len(gs) :
    \E i \in 1..Len(gs[k]) :
      gs[k][i] \notin DigitChars /\ FilesUpTo(gs[k], i - 1) + 1 > 8

C4_FromFenBoardsValid ==
  (status = "ok" /\ rotations = 0)
    => AllValid(pieces_) /\ ~PutsPieceOffBoard(fen)

(***************************************************************************)
(* C5  In every Board reachable by a successful FromFen followed by any    *)
(* number of Rotate() calls, no two pieces share a position.               *)
(***************************************************************************)
C5_NoSharedPosition == status = "ok" => AllDistinct(pieces_)

\* A rotated Board with several pieces.
C5_Witness == status = "ok" /\ rotations >= 1 /\ Len(pieces_) >= 2

(***************************************************************************)
(* C6  FromFen returns an error and no Board exactly when the placement    *)
(* field does not split on '/' into exactly 8 rank-groups, or some         *)
(* rank-group has more than 8 characters, or some rank-group contains a    *)
(* character that is neither a digit nor one of r,n,b,q,k,p in either      *)
(* case; on every other input it succeeds.                                 *)
(***************************************************************************)
FenRejected(t) ==
  LET gs == GroupsOf(PlacementField(t)) IN
  \/ Len(gs) # 8
  \/ \E k \in 1..Len(gs) :
       \/ Len(gs[k]) > 8
       \/ \E i \in 1..Len(gs[k]) : gs[k][i] \notin DigitChars \cup PieceLetters

C6_FromFenErrorCases ==
  status # "none"
    => /\ (status = "error") <=> FenRejected(fen)
       /\ status = "error" => (error # NoError /\ pieces_ = << >>)
       /\ status = "ok" => error = NoError

\* A FEN of 8 rank-groups, all of digits and piece letters, rejected for a
\* rank-group of more than 8 characters.
C6_Witness ==
  /\ status = "error"
  /\ LET gs == GroupsOf(PlacementField(fen)) IN
     /\ Len(gs) = 8
     /\ \A k \in 1..8 : \A i \in 1..Len(gs[k]) :
          gs[k][i] \in DigitChars \cup PieceLetters
     /\ \E k \in 1..8 : Len(gs[k]) > 8

(***************************************************************************)
(* C7  For every FEN that FromFen accepts, the Board holds exactly one     *)
(* piece per letter of the placement field: a letter in the k-th group     *)
(* gets rank 9-k, its file is 1 plus the digit values and the number of    *)
(* letters before it in its group, its type and color are those of         *)
(* FromFenPieceChar.  The standard start position yields 16 White and 16   *)
(* Black pieces with White to move.                                        *)
(***************************************************************************)
\* The (group, index) pairs of the letters of the rank-groups gs.
LettersOf(gs) ==
  UNION { { << k, i >> : i \in { j \in 1..Len(gs[k]) : gs[k][j] \notin DigitChars } }
          : k \in 1..Len(gs) }

\* The piece that the i-th character of the k-th group stands for.
PieceOfLetter(gs, k, i) ==
  [ position |-> [ file |-> FilesUpTo(gs[k], i - 1) + 1, rank |-> 9 - k ],
    piece    |-> FromFenPieceChar(gs[k][i]).piece ]

CountColor(pieces, color) ==
  Cardinality({ i \in 1..Len(pieces) : pieces[i].piece.color = color })

C7_OnePiecePerLetter ==
  /\ (status = "ok" /\ rotations = 0)
       => LET gs      == GroupsOf(PlacementField(fen))
              letters == LettersOf(gs)
          IN  /\ Len(pieces_) = Cardinality(letters)
              /\ SetOf(pieces_)
                   = { PieceOfLetter(gs, l[1], l[2]) : l \in letters }
  /\ (fen = StartFen /\ status # "none" /\ rotations = 0)
       => /\ status = "ok"
          /\ CountColor(pieces_, "White") = 16
          /\ CountColor(pieces_, "Black") = 16
          /\ white_to_move_

\* The start position, parsed.
C7_Witness == fen = StartFen /\ status = "ok" /\ rotations = 0

(***************************************************************************)
(* C8  FromFen sets white_to_move to true when the FEN has no second       *)
(* space-separated field, and otherwise to true exactly when the second    *)
(* field equals "w"; any other second field ("b", "W", the empty field of  *)
(* two consecutive spaces) gives Black to move.                            *)
(***************************************************************************)
C8_SideToMove ==
  (status = "ok" /\ rotations = 0)
    => white_to_move_
         = (IF HasSecondField(fen) THEN SecondField(fen) = << "w" >> ELSE TRUE)

\* An accepted FEN with an empty second field: Black to move.
C8_Witness ==
  /\ status = "ok" /\ rotations = 0
  /\ HasSecondField(fen) /\ SecondField(fen) = << >>
  /\ ~white_to_move_

(***************************************************************************)
(* C9  For every Board whose pieces all have valid, pairwise distinct      *)
(* positions, each of the 8 rank-groups of Fen() is the canonical          *)
(* run-length encoding of that rank: empty squares are written as maximal  *)
(* runs (no two adjacent digits, every digit in 1..8), the digit values    *)
(* plus the number of letters sum to 8, and a rank with no pieces is "8".  *)
(***************************************************************************)
\* The letter of a piece in a FEN: upper case for White, lower for Black.
FenLetter(piece) ==
  LET white == CASE piece.type = "Rook" -> "R" [] piece.type = "Knight" -> "N"
                 [] piece.type = "Bishop" -> "B" [] piece.type = "Queen" -> "Q"
                 [] piece.type = "King" -> "K" [] piece.type = "Pawn" -> "P"
      black == CASE piece.type = "Rook" -> "r" [] piece.type = "Knight" -> "n"
                 [] piece.type = "Bishop" -> "b" [] piece.type = "Queen" -> "q"
                 [] piece.type = "King" -> "k" [] piece.type = "Pawn" -> "p"
  IN  IF piece.color = "White" THEN white ELSE black

\* The group g writes exactly the pieces standing on the given rank, each
\* as its letter on its file.
EncodesRank(g, pieces, rank) ==
  { << FilesUpTo(g, i - 1) + 1, g[i] >> :
      i \in { j \in 1..Len(g) : g[j] \notin DigitChars } }
    = { << pieces[i].position.file, FenLetter(pieces[i].piece) >> :
          i \in { j \in 1..Len(pieces) : pieces[j].position.rank = rank } }

CanonicalGroup(g) ==
  /\ \A i \in 1..Len(g) : g[i] \in DigitChars => DigitValue(g[i]) \in 1..8
  /\ \A i \in 1..(Len(g) - 1) : ~(g[i] \in DigitChars /\ g[i + 1] \in DigitChars)
  /\ FilesUpTo(g, Len(g)) = 8

C9_FenCanonicalRunLength ==
  (/\ fenOut.called /\ ~fenOut.crashed
   /\ AllValid(fenOut.pieces) /\ AllDistinct(fenOut.pieces))
    => LET gs == GroupsOf(PlacementField(fenOut.text)) IN
       /\ Len(gs) = 8
       /\ \A k \in 1..8 :
            /\ CanonicalGroup(gs[k])
            /\ EncodesRank(gs[k], fenOut.pieces, 9 - k)
            /\ (\A i \in 1..Len(fenOut.pieces) :
                  fenOut.pieces[i].position.rank # 9 - k)
                 => gs[k] = << "8" >>

\* Fen() of a Board with an empty rank and a rank of two pieces that are
\* not neighbours.
C9_Witness ==
  /\ fenOut.called /\ ~fenOut.crashed
  /\ AllValid(fenOut.pieces) /\ AllDistinct(fenOut.pieces)
  /\ \E i, j \in 1..Len(fenOut.pieces) :
       /\ fenOut.pieces[i].position.rank = fenOut.pieces[j].position.rank
       /\ fenOut.pieces[i].position.file + 1 < fenOut.pieces[j].position.file

(***************************************************************************)
(* C10  Fen() always returns 8 rank-groups joined by '/', the group of     *)
(* rank 8 first and of rank 1 last, followed by exactly " w - - 0 1" when  *)
(* white_to_move is true and " b - - 0 1" when it is false; a White piece  *)
(* is written as an upper-case letter and a Black piece as the lower-case  *)
(* letter of its type.                                                     *)
(***************************************************************************)
C10_FenShape ==
  fenOut.called
    => /\ ~fenOut.crashed
       /\ LET p  == PlacementField(fenOut.text)
              gs == GroupsOf(p)
          IN
          /\ Len(gs) = 8
          /\ SubSeq(fenOut.text, Len(p) + 1, Len(fenOut.text))
               = << " ", IF fenOut.white_to_move THEN "w" ELSE "b",
                    " ", "-", " ", "-", " ", "0", " ", "1" >>
          /\ \A i \in 1..Len(fenOut.pieces) :
               LET bp == fenOut.pieces[i]
                   g  == gs[9 - bp.position.rank]
               IN  \E j \in 1..Len(g) :
                     /\ g[j] = FenLetter(bp.piece)
                     /\ FilesUpTo(g, j - 1) + 1 = bp.position.file

\* C11: Rotate() flips white_to_move and puts every piece at (file, rank) on
\* (9 - file, 9 - rank) with its color flipped, both together, and changes
\* nothing else: the piece types, the number and the storage order of the
\* pieces and the info text stay as they were, and a piece on a valid
\* position is on a valid position afterwards.
C11_RotateEffectAndFrame ==
  [][ rotations' = rotations + 1 =>
        /\ white_to_move_' = ~white_to_move_
        /\ Len(pieces_') = Len(pieces_)
        /\ \A i \in 1..Len(pieces_) :
             /\ pieces_'[i].position.file = 9 - pieces_[i].position.file
             /\ pieces_'[i].position.rank = 9 - pieces_[i].position.rank
             /\ pieces_'[i].piece.color # pieces_[i].piece.color
             /\ pieces_'[i].piece.color \in Color
             /\ pieces_'[i].piece.type = pieces_[i].piece.type
             /\ IsValid(pieces_[i].position) => IsValid(pieces_'[i].position)
        /\ info_' = info_
        /\ status' = status
    ]_vars

\* A Board with an info text, pieces of both colors and a piece beside the
\* board, after a Rotate().
C11_Witness ==
  /\ rotations = 1
  /\ info_ # << >>
  /\ beforeRotate[1].info = info_
  /\ \E i \in 1..Len(pieces_) : pieces_[i].piece.color = "White"
  /\ \E i \in 1..Len(pieces_) : pieces_[i].piece.color = "Black"
  /\ \E i \in 1..Len(pieces_) : ~IsValid(pieces_[i].position)

\* C12: AtPosition(pos) returns the piece of the first PlacedPiece in storage
\* order whose position equals pos and none exactly when no PlacedPiece is at
\* pos; it leaves the Board as it is; on the start position AtPosition(e1)
\* is the White King.
C12_AtPosition ==
  [][ atOut' # atOut =>
        LET hits == { i \in 1..Len(pieces_) :
                        pieces_[i].position = atOut'.position }
        IN  /\ atOut'.called
            /\ hits = {} <=> atOut'.piece = NoPiece
            /\ hits # {} => atOut'.piece = pieces_[Min(hits)].piece
            /\ pieces_' = pieces_
            /\ white_to_move_' = white_to_move_
            /\ info_' = info_
            /\ ( /\ fen = StartFen
                 /\ rotations = 0
                 /\ atOut'.position = [ file |-> 5, rank |-> 1 ] )
               => atOut'.piece = [ type |-> "King", color |-> "White" ]
    ]_vars

\* AtPosition(e1) on the start position has returned a piece.
C12_Witness ==
  /\ atOut.called
  /\ fen = StartFen
  /\ atOut.pieces = pieces_
  /\ rotations = 0
  /\ atOut.position = [ file |-> 5, rank |-> 1 ]
  /\ atOut.piece # NoPiece

(***************************************************************************)
(* Reading position and piece texts by tables, for the statements below    *)
(***************************************************************************)

FileLetters == << "a", "b", "c", "d", "e", "f", "g", "h" >>

RankDigits == << "1", "2", "3", "4", "5", "6", "7", "8" >>

\* The index of the character c in the table t (c occurs in t).
IndexIn(t, c) == CHOOSE i \in 1..Len(t) : t[i] = c

IsPositionText(s) ==
  /\ Len(s) = 2
  /\ s[1] \in SetOf(FileLetters)
  /\ s[2] \in SetOf(RankDigits)

\* C13: for every position p with file and rank in 1..8, ToString(p) is a
\* text of 2 characters, a lower-case file letter a..h and a rank digit 1..8,
\* and BoardPosition::FromString(ToString(p)) succeeds and equals p.
C13_PositionRoundTrip ==
  ( call.op = "BoardPosition_ToString" /\ IsValid(call.position) ) =>
    /\ IsPositionText(call.out_str)
    /\ back.op = "BoardPosition_FromString" =>
         /\ back.str = call.out_str
         /\ back.ok
         /\ back.out_position = call.position

\* h1 has been written and read back.
C13_Witness ==
  /\ call.op = "BoardPosition_ToString"
  /\ call.position = [ file |-> 8, rank |-> 1 ]
  /\ back.op = "BoardPosition_FromString"
  /\ back.ok

\* C14: BoardPosition::FromString(s) succeeds exactly when s has 2
\* characters, the first in a..h and the second in 1..8, and then returns
\* file = 1 + (s[0] - 'a') and rank = s[1] - '0'; on every other text (a
\* wrong length, an upper-case file letter, the rank character 0 or 9, any
\* other character) it returns an error and no position.
C14_PositionFromString ==
  call.op = "BoardPosition_FromString" =>
    IF IsPositionText(call.str)
    THEN /\ call.ok
         /\ call.error = NoError
         /\ call.out_position =
              [ file |-> IndexIn(FileLetters, call.str[1]),
                rank |-> IndexIn(RankDigits, call.str[2]) ]
    ELSE /\ ~call.ok
         /\ call.error # NoError
         /\ call.out_position = NoPosition

\* A text with the upper-case file letter B has been rejected.
C14_Witness ==
  /\ call.op = "BoardPosition_FromString"
  /\ call.str = << "B", "1" >>
  /\ ~call.ok

\* The place of a valid position in the list rank 8 first down to rank 1,
\* files a to h within a rank.
ListedAt(p) == (8 - p.rank) * 8 + p.file

\* C15: the ordering of BoardPosition is a strict total order: a < b exactly
\* when a.rank > b.rank, or the ranks are equal and a.file < b.file; two
\* positions are equivalent exactly when they are equal under ==; so sorted
\* positions are listed rank 8 first down to rank 1, files a to h within a
\* rank.
C15_PositionOrder ==
  call.op = "BoardPosition_Compare" =>
    LET a == call.position
        b == call.other
        less == call.order = "less"
    IN  /\ less <=> ( a.rank > b.rank \/ ( a.rank = b.rank /\ a.file < b.file ) )
        /\ call.order = "greater" <=> BoardPosition_Less(b, a)
        /\ call.order \in { "less", "greater", "equal" }
        /\ call.order = "equal" <=> call.ok
        /\ call.ok <=> a = b
        /\ ~( less /\ BoardPosition_Less(b, a) )
        /\ \A c \in PositionInputs :
             ( less /\ BoardPosition_Less(b, c) ) => BoardPosition_Less(a, c)
        /\ ( IsValid(a) /\ IsValid(b) ) =>
             ( less <=> ListedAt(a) < ListedAt(b) )

\* h8 has been compared with a7 and comes before it.
C15_Witness ==
  /\ call.op = "BoardPosition_Compare"
  /\ call.position = [ file |-> 8, rank |-> 8 ]
  /\ call.other = [ file |-> 1, rank |-> 7 ]
  /\ call.order = "less"

\* The valid positions next to p along its file or along its rank.
AdjacentSquares(p) ==
  { q \in { [ file |-> p.file + 1, rank |-> p.rank ],
            [ file |-> p.file - 1, rank |-> p.rank ],
            [ file |-> p.file, rank |-> p.rank + 1 ],
            [ file |-> p.file, rank |-> p.rank - 1 ] } : IsValid(q) }

IsEven(n) == \E k \in (0 - CoordMargin - 1)..(8 + CoordMargin) : n = 2 * k

\* C16: Color() of a position is White exactly when file + rank is even:
\* (1,1) is White, (8,1) is Black, and two valid squares adjacent along a
\* file or along a rank have opposite colors.
C16_SquareColor ==
  call.op = "BoardPosition_Color" =>
    /\ call.color \in Color
    /\ call.color = "White" <=> IsEven(call.position.file + call.position.rank)
    /\ call.position = [ file |-> 1, rank |-> 1 ] => call.color = "White"
    /\ call.position = [ file |-> 8, rank |-> 1 ] => call.color = "Black"
    /\ IsValid(call.position) =>
         \A q \in AdjacentSquares(call.position) :
           /\ BoardPosition_Color(q) \in Color
           /\ BoardPosition_Color(q) # call.color

\* Color() of (8,1) has been asked for.
C16_Witness ==
  /\ call.op = "BoardPosition_Color"
  /\ call.position = [ file |-> 8, rank |-> 1 ]
  /\ call.color = "Black"

LowerPieceLetters == << "r", "n", "b", "q", "k", "p" >>

UpperPieceLetters == << "R", "N", "B", "Q", "K", "P" >>

TypeOfLetter == << "Rook", "Knight", "Bishop", "Queen", "King", "Pawn" >>

\* C17: FromFenPieceChar(c) succeeds exactly for the 12 characters
\* r, n, b, q, k, p and R, N, B, Q, K, P; the type is Rook, Knight, Bishop,
\* Queen, King, Pawn by the letter whatever its case, the color is White for
\* an upper-case letter and Black for a lower-case one; every other
\* character gives an error.
C17_FromFenPieceChar ==
  call.op = "FromFenPieceChar" =>
    LET c == call.str[1] IN
      IF c \in SetOf(LowerPieceLetters)
      THEN /\ call.ok
           /\ call.out_piece = [ type |-> TypeOfLetter[IndexIn(LowerPieceLetters, c)],
                                 color |-> "Black" ]
      ELSE IF c \in SetOf(UpperPieceLetters)
      THEN /\ call.ok
           /\ call.out_piece = [ type |-> TypeOfLetter[IndexIn(UpperPieceLetters, c)],
                                 color |-> "White" ]
      ELSE /\ ~call.ok
           /\ call.error # NoError
           /\ call.out_piece = NoPiece

\* FromFenPieceChar('Q') has returned a piece.
C17_Witness ==
  /\ call.op = "FromFenPieceChar"
  /\ call.str = << "Q" >>
  /\ call.ok

\* C18: when FromFenPieceChar(c) fails, the error it returns carries the
\* character c itself, the same character that was passed in.
C18_ErrorCarriesChar ==
  ( call.op = "FromFenPieceChar" /\ ~call.ok ) => call.error.arg = call.str

\* C19: for every piece type, color and valid position,
\* BoardPiece::FromString(ToString(bp, kEnglish)) succeeds and equals bp; for
\* every token t of 3 characters that BoardPiece::FromString accepts,
\* ToString(FromString(t), kEnglish) equals t; the text of a Black piece
\* holds no upper-case letter in any notation.
C19_PieceTokenRoundTrip ==
  /\ ( /\ call.op = "BoardPiece_ToString"
       /\ call.language = "kEnglish"
       /\ IsValid(call.position)
       /\ back.op = "BoardPiece_FromString" ) =>
       /\ back.str = call.out_str
       /\ back.ok
       /\ back.out_piece = call.piece
       /\ back.out_position = call.position
  /\ ( /\ call.op = "BoardPiece_FromString"
       /\ call.ok
       /\ back.op = "BoardPiece_ToString" ) =>
       /\ Len(call.str) = 3
       /\ back.piece = call.out_piece
       /\ back.position = call.out_position
       /\ back.out_str = call.str
  /\ ( call.op = "BoardPiece_ToString" /\ call.piece.color = "Black" ) =>
       \A i \in 1..Len(call.out_str) :
         call.out_str[i] \notin { Chr(n) : n \in Ord("A")..Ord("Z") }

\* The token ne4 has been read and written back as ne4.
C19_Witness ==
  /\ call.op = "BoardPiece_FromString"
  /\ call.str = << "n", "e", "4" >>
  /\ call.ok
  /\ back.op = "BoardPiece_ToString"
  /\ back.out_str = << "n", "e", "4" >>

\* C20: BoardPiece::FromString(s) returns an error when s has not exactly 3
\* characters; otherwise the piece parser's error when s[0] is no piece
\* letter, whatever the position is; otherwise the position parser's error
\* when the last 2 characters are no valid position; it succeeds only when
\* both parsers succeed.
C20_PieceTokenErrors ==
  call.op = "BoardPiece_FromString" =>
    IF Len(call.str) # 3
    THEN /\ ~call.ok
         /\ call.error # NoError
         /\ call.error.msg \notin { "Invalid FEN piece type",
                                    "Invalid position string",
                                    "Position must consist of exactly two chacaters." }
    ELSE LET piece_or == FromFenPieceChar(call.str[1])
             position_or == BoardPosition_FromString(SubSeq(call.str, 2, 3))
         IN  /\ call.ok <=> ( piece_or.ok /\ position_or.ok )
             /\ ~piece_or.ok =>
                  /\ piece_or.error # NoError
                  /\ call.error = piece_or.error
             /\ ( piece_or.ok /\ ~position_or.ok ) =>
                  /\ position_or.error # NoError
                  /\ call.error = position_or.error
             /\ call.ok =>
                  /\ call.out_piece = piece_or.piece
                  /\ call.out_position = position_or.position

\* A token whose letter is no piece and whose position is not valid has
\* been refused with the piece parser's error.
C20_Witness ==
  /\ call.op = "BoardPiece_FromString"
  /\ call.str = << "X", "i", "9" >>
  /\ ~call.ok
  /\ call.error.msg = "Invalid FEN piece type"

\* The problems of the file whose "fen" is a string FromFen rejects.
RejectedProblems(doc) ==
  { i \in 1..Len(doc.problems) :
      /\ doc.problems[i].fen_kind = "string"
      /\ ~FromFen(doc.problems[i].fen).ok }

\* C21: when LoadFenFile succeeds it returns one Board per element of the
\* "problems" array, in the order of the array: Board i is FromFen of the
\* "fen" of element i, its info the "info" of element i when that field is
\* there and a string, and empty otherwise.
C21_LoadFenFileBoards ==
  ( load.called /\ load.outcome.kind = "ok" ) =>
    LET problems == load.doc.problems
        boards == load.outcome.boards
    IN  /\ Len(boards) = Len(problems)
        /\ \A i \in 1..Len(problems) :
             LET r == FromFen(problems[i].fen) IN
               /\ problems[i].fen_kind = "string"
               /\ r.ok
               /\ boards[i].pieces = r.pieces
               /\ boards[i].white_to_move = r.white_to_move
               /\ boards[i].info =
                    IF problems[i].info_kind = "string"
                    THEN problems[i].info ELSE << >>

\* Two problems with different Boards, one with an info text and one whose
\* info is a number, have been loaded.
C21_Witness ==
  /\ load.called
  /\ load.outcome.kind = "ok"
  /\ Len(load.outcome.boards) = 2
  /\ load.outcome.boards[1].info # << >>
  /\ load.doc.problems[2].info_kind = "number"
  /\ load.outcome.boards[1].pieces # load.outcome.boards[2].pieces

\* C22: if FromFen fails for an element of the "problems" array,
\* LoadFenFile returns the failure of the first such element and no Board,
\* also when earlier elements were read.
C22_FirstFailureReturned ==
  ( load.called /\ RejectedProblems(load.doc) # {} ) =>
    /\ load.outcome.kind = "error"
    /\ load.outcome.error =
         FromFen(load.doc.problems[Min(RejectedProblems(load.doc))].fen).error
    /\ load.outcome.boards = << >>

\* The files LoadFenFile cannot read as a problem set: no file, no JSON,
\* or a problem without the string field "fen".
UnusableFile(doc) ==
  \/ doc.kind \in { "unreadable", "malformed" }
  \/ \E i \in 1..Len(doc.problems) :
       /\ doc.problems[i].fen_kind # "string"
       /\ \A j \in 1..(i - 1) : j \notin RejectedProblems(doc)

\* C23: LoadFenFile reports a file that is missing or cannot be read, a
\* text that is no JSON, and a problem without the string field "fen" as
\* an error it returns; none of them ends in an exception or a crash.
C23_FileErrorsReturned ==
  load.called =>
    /\ UnusableFile(load.doc) => load.outcome.kind = "error"
    /\ load.outcome.kind \in { "ok", "error" }

\* C24: BoardPieces() returns all pieces in the order they were inserted,
\* the order of parsing, and leaves the Board as it is; for a Board straight
\* from FromFen the sequence is strictly increasing in the ordering of
\* BoardPosition (rank 8 down to rank 1, files a to h within a rank).
C24_BoardPiecesOrder ==
  [][ piecesOut' # piecesOut =>
        LET out == piecesOut'.board_pieces IN
          /\ piecesOut'.called
          /\ out = pieces_
          /\ pieces_' = pieces_
          /\ white_to_move_' = white_to_move_
          /\ info_' = info_
          /\ rotations = 0 =>
               /\ out = FromFen(fen).pieces
               /\ \A i \in 1..Len(out), j \in 1..Len(out) :
                    i < j =>
                      \/ out[i].position.rank > out[j].position.rank
                      \/ /\ out[i].position.rank = out[j].position.rank
                         /\ out[i].position.file < out[j].position.file
    ]_vars

\* BoardPieces() has returned the pieces of a Board straight from FromFen
\* that has pieces in one rank and in different ranks.
C24_Witness ==
  /\ piecesOut.called
  /\ piecesOut.rotations = 0
  /\ \E i, j \in 1..Len(piecesOut.board_pieces) :
       /\ i < j
       /\ piecesOut.board_pieces[i].position.rank
            = piecesOut.board_pieces[j].position.rank
  /\ \E i, j \in 1..Len(piecesOut.board_pieces) :
       piecesOut.board_pieces[i].position.rank
         > piecesOut.board_pieces[j].position.rank

\* The text t read from its end, with the case of every piece letter
\* exchanged.
ReversedCaseSwapped(t) ==
  [ i \in 1..Len(t) |->
      LET c == t[Len(t) + 1 - i] IN
        IF c \in SetOf(LowerPieceLetters)
        THEN UpperPieceLetters[IndexIn(LowerPieceLetters, c)]
        ELSE IF c \in SetOf(UpperPieceLetters)
        THEN LowerPieceLetters[IndexIn(UpperPieceLetters, c)]
        ELSE c ]

\* C27: for every Board b whose pieces have valid, pairwise distinct
\* positions, the placement field of Fen() after one Rotate() is the
\* placement field of b.Fen() read from its end with the case of every
\* letter exchanged, and the letter of the side to move is the other one.
C27_RotateReversesFen ==
  ( /\ fenOut.called
    /\ fenOut.rotations >= 1
    /\ AllValid(beforeRotate[fenOut.rotations].pieces)
    /\ AllDistinct(beforeRotate[fenOut.rotations].pieces) ) =>
    LET b == beforeRotate[fenOut.rotations]
        before == FenText(b.pieces, b.white_to_move)
    IN  /\ ~fenOut.crashed
        /\ Fen(b.pieces, b.white_to_move)
             = { [ crashed |-> FALSE, text |-> before ] }
        /\ PlacementField(fenOut.text)
             = ReversedCaseSwapped(PlacementField(before))
        /\ { SecondField(fenOut.text), SecondField(before) }
             = { << "w" >>, << "b" >> }

\* Fen() has been called after one Rotate() of a Board with pieces of both
\* colors that is not its own mirror image.
C27_Witness ==
  /\ fenOut.called
  /\ ~fenOut.crashed
  /\ fenOut.rotations = 1
  /\ fen = CastlingFen

\* The positions of a list come in strictly increasing order: rank 8 first
\* down to rank 1, files a to h within a rank.
StrictlyIncreasing(positions) ==
  \A i \in 1..Len(positions), j \in 1..Len(positions) :
    i < j =>
      \/ positions[i].rank > positions[j].rank
      \/ /\ positions[i].rank = positions[j].rank
         /\ positions[i].file < positions[j].file

\* p and q lie on one diagonal.
OnDiagonal(p, q) ==
  \/ p.file - q.file = p.rank - q.rank
  \/ p.file - q.file = q.rank - p.rank

\* C26: in BishopIntercept::Run, for two distinct valid squares a and b the
\* list of solutions is empty when a and b have different square colors,
\* is [a] when a and b lie on one diagonal, and otherwise holds exactly the
\* valid squares on a diagonal through a and on a diagonal through b, each
\* once and in the order of BoardPosition.
C26_BishopInterceptSolutions ==
  call.op = "BishopIntercept" =>
    LET a == call.position
        b == call.other
        solutions == call.out_positions
    IN  /\ IsValid(a) /\ IsValid(b) /\ a # b
        /\ IF BoardPosition_Color(a) # BoardPosition_Color(b)
           THEN solutions = << >>
           ELSE IF OnDiagonal(a, b)
           THEN solutions = << a >>
           ELSE /\ SetOf(solutions) =
                     { q \in [ file : 1..8, rank : 1..8 ] :
                         OnDiagonal(q, a) /\ OnDiagonal(q, b) }
                /\ StrictlyIncreasing(solutions)

\* The solutions for a1 and a3, which share the one square b2.
C26_Witness ==
  /\ call.op = "BishopIntercept"
  /\ call.position = [ file |-> 1, rank |-> 1 ]
  /\ call.other = [ file |-> 1, rank |-> 3 ]
  /\ call.out_positions = << [ file |-> 2, rank |-> 2 ] >>

\* C30: Normalize(positions) leaves exactly the distinct valid positions of
\* its input, nothing added and nothing else removed, in strictly
\* increasing order of BoardPosition; Normalize of its own result changes
\* nothing.
C30_Normalize ==
  call.op = "Normalize" =>
    /\ SetOf(call.out_positions)
         = { p \in SetOf(call.positions) : IsValid(p) }
    /\ StrictlyIncreasing(call.out_positions)
    /\ back.op = "Normalize" =>
         /\ back.positions = call.out_positions
         /\ back.out_positions = call.out_positions

\* A list with a position twice, one beside the board and two in falling
\* order has been normalized, and its result normalized again.
C30_Witness ==
  /\ call.op = "Normalize"
  /\ call.positions = << [ file |-> 1, rank |-> 1 ], [ file |-> 0, rank |-> 1 ],
                         [ file |-> 1, rank |-> 1 ] >>
  /\ call.out_positions = << [ file |-> 1, rank |-> 1 ] >>
  /\ back.op = "Normalize"

\* The loop of a trainer has ended: the function returned, or the program
\* ended in another way.
QuizStopped == quiz.pc \in { "returned", "terminated", "crashed" }

\* C25: the loops of RunMemoryTrainer and RunBishopTrainer stop once
\* standard input is exhausted: after a read has met the end of the input,
\* the trainer eventually returns instead of asking and judging for ever.
C25_LoopsStopAtEndOfInput ==
  (quiz.program # "none" /\ ~quiz.good) ~> QuizStopped

\* The parts of a rank-description answer, empty ones skipped.
AnswerParts ==
  SelectSeq(StrSplit(quiz.answer, " "), LAMBDA part : part # << >>)

\* The round just played asked for a rank and its answer has a part that
\* BoardPiece::FromString rejects.
RankAnswerRejected ==
  /\ quiz.question.type = "rank"
  /\ quiz.answer # ExitText
  /\ \E i \in 1..Len(AnswerParts) : ~BoardPiece_FromString(AnswerParts[i]).ok

\* C28: in the rank-description question of the memory trainer, an answer
\* with a token BoardPiece::FromString rejects is never judged "Correct!".
C28_RejectedTokenNeverCorrect ==
  RankAnswerRejected =>
    \A i \in 1..Len(quiz.output) : quiz.output[i] # "Correct!"

\* C29: RunMemoryTrainer reads the problem list and a Board's piece list
\* only at indices inside them: every index it has used is in 0..size-1.
C29_IndicesInRange ==
  quiz.access.used =>
    quiz.access.index >= 0 /\ quiz.access.index < quiz.access.size

====
